---- MODULE Spec2Model ----
(***************************************************************************)
(* Tender portal (kaparo7-ops/nwgd1): identity, access control and the     *)
(* alert rule engine, modelled from src/tender_portal/{auth,models,        *)
(* database,server}.py.                                                    *)
(*                                                                         *)
(* The SQLite database is one variable, db, a record of tables; a table is *)
(* a set of rows (records).  Every thread has its own connection          *)
(* (database._DB_LOCAL).  db.busy tells whether the connection of a        *)
(* request thread that ended in a failed write is still open and holds the *)
(* write lock of the file; db.pending tells whether the main thread (the   *)
(* one that runs the start-up, the tests' setUp and create_user) has its   *)
(* own write transaction open after a failed INSERT.  Every statement      *)
(* commits on its own, so a handler that runs several statements is        *)
(* several steps of a worker, and the statements of other request threads  *)
(* (ThreadingHTTPServer) run in between.                                   *)
(* Encoding of SQL and Python values:                                      *)
(*   - integer primary keys start at 1 (AUTOINCREMENT, never reused);      *)
(*     None = 0 stands for Python None / SQL NULL in an integer column;    *)
(*   - NullText is NULL in a TEXT column;                                  *)
(*   - a TEXT date column is NullDate (NULL), BadDate (a string that       *)
(*     date.fromisoformat rejects) or <<"date", d>>, the ISO string of     *)
(*     day number d;                                                       *)
(*   - a Python dict argument (`data`) is a function whose DOMAIN is the   *)
(*     set of keys present;                                                *)
(*   - a str that the code looks into (a password, a file name, a Cookie   *)
(*     header, the digits of an id) is the sequence of its code points;    *)
(*     user names and roles are ASCII words, written as strings;           *)
(*   - the clock `now` counts hours; date.today() is now \div 24.          *)
(* Columns that no modelled operation reads (descriptions, currencies,     *)
(* Arabic texts, contact details) are left out of the rows.                *)
(***************************************************************************)
EXTENDS Integers, Sequences, FiniteSets, TLC

(* ------------------------------ bounds -------------------------------- *)
\* the clock stops at MaxNow hours and is observed every TickHours hours
MaxNow == 24
TickHours == 6
\* sessions issued
MaxSessions == 2
\* rows ever inserted into the tenders, suppliers, projects and invoices tables
MaxRows == 2
\* tenders created through the request handler
MaxPosted == 1
\* files ever uploaded
MaxUploads == 2
\* users ever created
MaxUsers == 6
\* calendar days the alert engine is followed over
MaxDay == 1
\* request threads that are inside a handler of several statements at the
\* same time
MaxWorkers == 2
\* characters in a short password
MaxPasswordLen == 2
\* distinct salts
MaxSalts == 3

(* ------------------------- program constants -------------------------- *)
SESSION_DURATION_HOURS == 12
HoursPerDay == 24
TENDER_SOON_DAYS == 5
GUARANTEE_SOON_DAYS == 10
\* block size of SHA-256, in bytes
HMAC_BLOCK_SIZE == 64
\* the longest file name and the shortest path that Linux refuses, in bytes
NAME_MAX == 255
PATH_MAX == 4096
\* len(datetime.utcnow().strftime("%Y%m%d%H%M%S%f"))
TIMESTAMP_DIGITS == 20
\* len(os.fsencode(UPLOAD_DIR)): the directory of the package and "/uploads"
UPLOAD_DIR_BYTES == 41

None == 0
NullText == "<null>"
NullDate == <<>>
BadDate == <<"text">>
IsoDate(d) == <<"date", d>>
\* a cookie value that secrets.token_hex never returned (a forged token)
UnknownToken == 0

VARIABLES
    now,       \* wall clock, in hours (datetime.utcnow, date.today, CURRENT_TIMESTAMP)
    db,        \* the SQLite database: a record of tables, sqlite_sequence and busy
    files,     \* number of files written under UPLOAD_DIR
    workers,   \* request threads between two statements of their handler
    issued,    \* history: every session ever issued [token, user_id, at]
    destroyed, \* history: issued tokens passed to destroy_session
    outcome    \* the last call and what it returned: [op, user, arg, body, result, value]

vars == <<now, db, files, workers, issued, destroyed, outcome>>

\* op(arg, body) called for user; result is "ok" or the exception raised
Outcome(op, user, arg, body, result, value) ==
    [op |-> op, user |-> user, arg |-> arg, body |-> body, result |-> result, value |-> value]

\* what a helper hands back: the db after, "ok" or the exception, the return value
Ret(d, result, value) == [db |-> d, result |-> result, value |-> value]

\* a statement that writes while another connection holds the write lock:
\* sqlite3 waits for its timeout (5 s) and raises OperationalError("database
\* is locked"); nothing is written
Locked(d) == Ret(d, "OperationalError", None)

\* a call made with what an inner call returned: the exception the inner
\* call raised leaves the outer call too, else the outer call returns F of
\* the inner call's value
Then(r, F(_)) == IF r.result # "ok" THEN r ELSE [result |-> "ok", value |-> F(r.value)]

\* a statement run on the database an earlier statement left, unless that
\* one raised
ThenDb(r, F(_)) == IF r.result # "ok" THEN r ELSE F(r.db)

\* the write lock as a request thread meets it: held by the connection an
\* ended thread left open, or by the open transaction of the main thread
Held(d) == d.busy \/ d.pending

(* ----------------------------- dictionaries ---------------------------- *)
\* dict.get(key, default)
Get(data, key, default) == IF key \in DOMAIN data THEN data[key] ELSE default

\* the UPDATE built by the update_* helpers: the listed fields present in data
Assign(row, data, fields) ==
    [f \in DOMAIN row |-> IF f \in fields /\ f \in DOMAIN data THEN data[f] ELSE row[f]]

Ids(rows) == {r.id : r \in rows}

(* --------------------------- column values ----------------------------- *)
\* the value bound to a nullable numeric column: Python's None is NULL, a
\* number is itself (0 is a number and not NULL)
Null == <<>>
Number(n) == <<"number", n>>
IsNumber(v) == Len(v) = 2 /\ v[1] = "number"

\* a str given as the sequence of its character codes
Text(chars) == <<"text", chars>>

Min(S) == CHOOSE x \in S : \A y \in S : x <= y
Max(S) == CHOOSE x \in S : \A y \in S : y <= x

\* rows come back in rowid order
RECURSIVE Ascending(_)
Ascending(S) == IF S = {} THEN <<>> ELSE <<Min(S)>> \o Ascending(S \ {Min(S)})

RowOf(rows, id) == CHOOSE r \in rows : r.id = id

(* ----------------------------- datetimes ------------------------------ *)
\* datetime.isoformat(): the date part and the time part of the string
isoformat(t) == <<t \div HoursPerDay, t % HoursPerDay>>

\* datetime.fromisoformat() of a string written by isoformat()
datetime_fromisoformat(s) == s[1] * HoursPerDay + s[2]

\* date.today()
Today(clock) == clock \div HoursPerDay

\* date.fromisoformat(text): ValueError unless text is an ISO date
date_fromisoformat(text) ==
    IF Len(text) = 2 /\ text[1] = "date"
    THEN [ok |-> TRUE, date |-> text[2]]
    ELSE [ok |-> FALSE, date |-> 0]

(* ----------------------------- passwords ------------------------------ *)
\* a password as the caller passes it: a str, Text(chars), or what a JSON
\* body can hold instead, Number(n) or Null
PasswordChars == {0, 97}
Passwords == {Text(chars) : chars \in UNION {[1..n -> PasswordChars] : n \in 0..MaxPasswordLen}}

\* os.urandom(16), as a value out of a small set
Salts == 1..MaxSalts

IsText(value) == Len(value) = 2 /\ value[1] = "text"

\* password.encode("utf-8"): AttributeError for a value without the method,
\* UnicodeEncodeError for a str with a surrogate, else the bytes
encode(value) ==
    LET utf8(c) == IF c < 128 THEN <<c>>
                   ELSE IF c < 2048 THEN <<192 + (c \div 64), 128 + (c % 64)>>
                   ELSE IF c < 65536
                   THEN <<224 + (c \div 4096), 128 + ((c \div 64) % 64), 128 + (c % 64)>>
                   ELSE <<240 + (c \div 262144), 128 + ((c \div 4096) % 64),
                          128 + ((c \div 64) % 64), 128 + (c % 64)>>
        RECURSIVE Join(_)
        Join(chars) == IF chars = <<>> THEN <<>> ELSE utf8(Head(chars)) \o Join(Tail(chars))
    IN  IF ~IsText(value) THEN [result |-> "AttributeError", value |-> <<>>]
        ELSE IF \E i \in DOMAIN value[2] : value[2][i] \in 55296..57343
        THEN [result |-> "UnicodeEncodeError", value |-> <<>>]
        ELSE [result |-> "ok", value |-> Join(value[2])]

\* hashlib.sha256(bytes).digest(): SHA-256 (FIPS 180-4) of a sequence of
\* bytes, as the sequence of its 32 bytes.  A word of 32 bits is kept as
\* <<its high 16 bits, its low 16 bits>>
sha256(bytes) ==
    LET K == <<<<17034, 12184>>, <<28983, 17553>>, <<46528, 64463>>, <<59829, 56229>>,
             <<14678, 49755>>, <<23025, 4593>>, <<37439, 33444>>, <<43804, 24277>>,
             <<55303, 43672>>, <<4739, 23297>>, <<9265, 34238>>, <<21772, 32195>>,
             <<29374, 23924>>, <<32990, 45566>>, <<39900, 1703>>, <<49563, 61812>>,
             <<58523, 27073>>, <<61374, 18310>>, <<4033, 40390>>, <<9228, 41420>>,
             <<11753, 11375>>, <<19060, 33962>>, <<23728, 43484>>, <<30457, 35034>>,
             <<38974, 20818>>, <<43057, 50797>>, <<45059, 10184>>, <<48985, 32711>>,
             <<50912, 3059>>, <<54695, 37191>>, <<1738, 25425>>, <<5161, 10599>>,
             <<10167, 2693>>, <<11803, 8504>>, <<19756, 28156>>, <<21304, 3347>>,
             <<25866, 29524>>, <<30314, 2747>>, <<33218, 51502>>, <<37490, 11397>>,
             <<41663, 59553>>, <<43034, 26187>>, <<49739, 35696>>, <<51052, 20899>>,
             <<53650, 59417>>, <<54937, 1572>>, <<62478, 13701>>, <<4202, 41072>>,
             <<6564, 49430>>, <<7735, 27656>>, <<10056, 30540>>, <<13488, 48309>>,
             <<14620, 3251>>, <<20184, 43594>>, <<23452, 51791>>, <<26670, 28659>>,
             <<29839, 33518>>, <<30885, 25455>>, <<33992, 30740>>, <<36039, 520>>,
             <<37054, 65530>>, <<42064, 27883>>, <<48889, 41975>>, <<50801, 30962>>>>
        H0 == <<<<27145, 58983>>, <<47975, 44677>>, <<15470, 62322>>, <<42319, 62778>>,
             <<20750, 21119>>, <<39685, 26764>>, <<8067, 55723>>, <<23520, 52505>>>>
        RECURSIVE Bits(_, _, _, _, _)
        \* the n low bits of x ^ y ^ z ("xor"), of (x & y) ^ (~x & z) ("ch") and
        \* of (x & y) ^ (x & z) ^ (y & z) ("maj")
        Bits(kind, x, y, z, n) ==
            IF n = 0 THEN 0
            ELSE (IF kind = "xor" THEN (x + y + z) % 2
                  ELSE IF kind = "ch" THEN (IF x % 2 = 1 THEN y % 2 ELSE z % 2)
                  ELSE (IF (x % 2) + (y % 2) + (z % 2) >= 2 THEN 1 ELSE 0))
                 + 2 * Bits(kind, x \div 2, y \div 2, z \div 2, n - 1)
        Op(kind, u, v, w) ==
            <<Bits(kind, u[1], v[1], w[1], 16), Bits(kind, u[2], v[2], w[2], 16)>>
        Turn(u, n) == <<(u[1] \div (2^n)) + (u[2] % (2^n)) * (2^(16 - n)),
                        (u[2] \div (2^n)) + (u[1] % (2^n)) * (2^(16 - n))>>
        Rotr(u, n) == IF n >= 16 THEN Turn(<<u[2], u[1]>>, n - 16) ELSE Turn(u, n)
        Shr(u, n) == <<u[1] \div (2^n), (u[2] \div (2^n)) + (u[1] % (2^n)) * (2^(16 - n))>>
        Add(u, v) == <<(u[1] + v[1] + ((u[2] + v[2]) \div 65536)) % 65536,
                       (u[2] + v[2]) % 65536>>
        RECURSIVE Schedule(_)
        Schedule(w) ==
            IF Len(w) = 64 THEN w
            ELSE LET t == Len(w) + 1
                     a == w[t - 15]
                     b == w[t - 2]
                 IN  Schedule(Append(w,
                         Add(Add(Op("xor", Rotr(b, 17), Rotr(b, 19), Shr(b, 10)), w[t - 7]),
                             Add(Op("xor", Rotr(a, 7), Rotr(a, 18), Shr(a, 3)), w[t - 16]))))
        \* one round on <<a, b, c, d, e, f, g, h, t>>, t the round reached
        Round(s, t1, t2) ==
            <<Add(t1, t2), s[1], s[2], s[3], Add(s[4], t1), s[5], s[6], s[7], s[9] + 1>>
        \* the 64 rounds
        RECURSIVE Rounds(_, _)
        Rounds(s, w) ==
            IF s[9] > 64 THEN s
            ELSE Rounds(Round(s,
                              Add(Add(Add(s[8], Op("xor", Rotr(s[5], 6), Rotr(s[5], 11),
                                                   Rotr(s[5], 25))),
                                      Add(Op("ch", s[5], s[6], s[7]), K[s[9]])), w[s[9]]),
                              Add(Op("xor", Rotr(s[1], 2), Rotr(s[1], 13), Rotr(s[1], 22)),
                                  Op("maj", s[1], s[2], s[3]))),
                        w)
        RECURSIVE Words(_)
        Words(b) == IF b = <<>> THEN <<>>
                    ELSE <<<<b[1] * 256 + b[2], b[3] * 256 + b[4]>>>> \o Words(SubSeq(b, 5, Len(b)))
        \* the hash value after a block whose rounds ended in s
        Sum(h, s) ==
            <<Add(h[1], s[1]), Add(h[2], s[2]), Add(h[3], s[3]), Add(h[4], s[4]),
              Add(h[5], s[5]), Add(h[6], s[6]), Add(h[7], s[7]), Add(h[8], s[8])>>
        RECURSIVE Blocks(_, _)
        Blocks(h, m) ==
            IF m = <<>> THEN h
            ELSE Blocks(Sum(h, Rounds(h \o <<1>>, Schedule(Words(SubSeq(m, 1, 64))))),
                        SubSeq(m, 65, Len(m)))
        RECURSIVE Zeros(_)
        Zeros(n) == IF n = 0 THEN <<>> ELSE <<0>> \o Zeros(n - 1)
        bits == 8 * Len(bytes)
        padded == bytes \o <<128>> \o Zeros((55 - Len(bytes)) % 64)
                      \o <<0, 0, 0, 0, bits \div 16777216, (bits \div 65536) % 256,
                           (bits \div 256) % 256, bits % 256>>
        RECURSIVE Bytes(_)
        Bytes(h) == IF h = <<>> THEN <<>>
                    ELSE <<h[1][1] \div 256, h[1][1] % 256, h[1][2] \div 256, h[1][2] % 256>>
                             \o Bytes(Tail(h))
    IN  Bytes(Blocks(H0, padded))

\* a password of 65 characters, "a" 57 times and "qhqmmkaa", whose SHA-256
\* digest is the UTF-8 encoding of a str, and that str
LongPassword ==
    Text([i \in 1..57 |-> 97] \o <<113, 104, 113, 109, 109, 107, 97, 97>>)
DigestPassword ==
    Text(<<46, 62, 70, 21, 53, 12, 105, 10, 17, 10, 69, 19, 61, 124, 65, 20, 8, 71, 100, 9,
           103, 64, 84, 191, 48, 55, 77, 53, 113, 68, 67>>)

\* the digests of the long keys that are tried, computed once
LongKeyDigests == [key \in {encode(LongPassword).value} |-> sha256(key)]

\* HMAC's key block (hashlib.pbkdf2_hmac): a key longer than the block is
\* hashed first; the key or its digest is filled up with zero bytes
HmacKey(key) ==
    LET Fill(short) == short \o [i \in 1..(HMAC_BLOCK_SIZE - Len(short)) |-> 0]
    IN  Fill(IF Len(key) <= HMAC_BLOCK_SIZE THEN key
             ELSE Get(LongKeyDigests, key, sha256(key)))

\* auth._pbkdf2_hash: PBKDF2-HMAC-SHA256 keyed by the encoded password; the
\* digest is a function of the key block and the salt, one to one
pbkdf2_hash(password, salt) ==
    Then(encode(password), LAMBDA key : <<"pbkdf2", HmacKey(key), salt>>)

\* auth.hash_password with the salt it drew: f"{salt.hex()}${digest}"
hash_password(password, salt) ==
    Then(pbkdf2_hash(password, salt), LAMBDA digest : <<salt, digest>>)

\* auth.verify_password: False for a stored hash that does not split in two,
\* else the comparison of the digests, or the exception of _pbkdf2_hash (the
\* salt and the digest are the two parts of the stored hash)
verify_password(password, stored_hash) ==
    IF Len(stored_hash) # 2 THEN [result |-> "ok", value |-> FALSE]
    ELSE Then(pbkdf2_hash(password, stored_hash[1]), LAMBDA digest : digest = stored_hash[2])

(* ------------------------------ users --------------------------------- *)
\* "Admin123!", "Procure123!", "Project123!", "Finance123!", "Viewer123!"
DefaultPasswords ==
    [ admin       |-> Text(<<65, 100, 109, 105, 110, 49, 50, 51, 33>>),
      procurement |-> Text(<<80, 114, 111, 99, 117, 114, 101, 49, 50, 51, 33>>),
      project     |-> Text(<<80, 114, 111, 106, 101, 99, 116, 49, 50, 51, 33>>),
      finance     |-> Text(<<70, 105, 110, 97, 110, 99, 101, 49, 50, 51, 33>>),
      viewer      |-> Text(<<86, 105, 101, 119, 101, 114, 49, 50, 51, 33>>) ]

\* database.reset_database: executescript commits what the connection has
\* pending and drops every table.  init_db follows it in every caller, so the
\* store it leaves is written as the empty tables with their counters back
\* at zero and no connection holding a transaction
reset_database(d) ==
    [users |-> {}, sessions |-> {}, tenders |-> {}, suppliers |-> {},
     projects |-> {}, project_suppliers |-> {}, invoices |-> {}, attachments |-> {},
     notifications |-> {},
     seq |-> [users |-> 0, sessions |-> 0, tenders |-> 0, suppliers |-> 0, projects |-> 0,
              invoices |-> 0, attachments |-> 0, notifications |-> 0],
     busy |-> FALSE, pending |-> FALSE]

\* database.init_db: CREATE TABLE IF NOT EXISTS for every table; the tables
\* that exist keep their rows
init_db(d) == d

\* auth.create_user with the salt hash_password drew, called on the main
\* thread: the password is hashed first; the INSERT is refused while another
\* connection holds the write lock; username is UNIQUE; any role string is
\* accepted
create_user(d, username, password, salt, role) ==
    LET Insert(password_hash) ==
            IF password_hash.result # "ok" THEN Ret(d, password_hash.result, None)
            ELSE IF d.busy THEN Locked(d)
            ELSE IF \E u \in d.users : u.username = username
            THEN Ret(d, "IntegrityError", None)
            ELSE Ret([d EXCEPT !.users = @ \cup {[id |-> d.seq.users + 1,
                                                  username |-> username, role |-> role,
                                                  password_hash |-> password_hash.value]},
                               !.seq.users = @ + 1],
                     "ok", d.seq.users + 1)
    IN  Insert(hash_password(password, salt))

\* the defaults of auth.ensure_default_users in their order: username, role
DefaultRoles ==
    << <<"admin", "admin">>, <<"procurement", "procurement">>, <<"project", "project_manager">>,
       <<"finance", "finance">>, <<"viewer", "viewer">> >>

RECURSIVE EnsureUsers(_, _)
\* the for loop of ensure_default_users: a default whose username no user
\* has is created, the others are left as they are
EnsureUsers(d, defaults) ==
    IF defaults = <<>> THEN d
    ELSE LET name == Head(defaults)[1]
             r == create_user(d, name, DefaultPasswords[name], 1, Head(defaults)[2])
         IN  EnsureUsers(IF \E u \in d.users : u.username = name THEN d ELSE r.db,
                         Tail(defaults))

\* auth.ensure_default_users
ensure_default_users(d) == EnsureUsers(d, DefaultRoles)

\* the five role-based users of a new database, ids in insertion order
DefaultUsers == ensure_default_users(init_db(reset_database(<<>>))).users


\* auth.get_user_by_username
get_user_by_username(d, username) == {u \in d.users : u.username = username}

\* auth.authenticate: None ({}) without the user, before the password is
\* looked at; else verify_password decides, or raises
authenticate(d, username, password) ==
    LET found == get_user_by_username(d, username) IN
    IF found = {} THEN [result |-> "ok", value |-> {}]
    ELSE Then(verify_password(password, (CHOOSE u \in found : TRUE).password_hash),
              LAMBDA verified : IF verified THEN found ELSE {})

(* --------------------------- access control --------------------------- *)
Areas == {"tenders", "projects", "finance", "suppliers", "reports"}

\* a ROLE_PERMISSIONS in which the read-only role may also edit tenders
ROLE_PERMISSIONS_ViewerEdits ==
    [ admin           |-> {"tenders", "projects", "finance", "suppliers", "reports"},
      procurement     |-> {"tenders", "reports", "suppliers"},
      project_manager |-> {"projects", "reports", "suppliers"},
      finance         |-> {"projects", "finance", "reports"},
      viewer          |-> {"reports", "tenders"} ]

\* models.ROLE_PERMISSIONS
ROLE_PERMISSIONS ==
    [ admin           |-> {"tenders", "projects", "finance", "suppliers", "reports"},
      procurement     |-> {"tenders", "reports", "suppliers"},
      project_manager |-> {"projects", "reports", "suppliers"},
      finance         |-> {"projects", "finance", "reports"},
      viewer          |-> {"reports"} ]

\* models.check_permission: "ok" when it returns, else the exception it raises
check_permission(user, area) ==
    LET role == user.role
        permissions == Get(ROLE_PERMISSIONS, role, {})
    IN  IF area \notin permissions THEN "PermissionError" ELSE "ok"

(* ----------------------------- sessions ------------------------------- *)
Tokens == 1..MaxSessions

IssuedTokens(history) == {h.token : h \in history}

\* a token generator that hands out the same value again
token_hex_reused(history) == 1

\* secrets.token_hex(24): 192 random bits, modelled as a value never drawn before
token_hex(history) == Cardinality(IssuedTokens(history)) + 1

\* INSERT INTO sessions: token is UNIQUE, user_id REFERENCES users(id)
InsertSession(d, row) ==
    IF \/ \E s \in d.sessions : s.token = row.token
       \/ row.user_id \notin Ids(d.users)
    THEN [ok |-> FALSE, db |-> d]
    ELSE LET id == d.seq.sessions + 1 IN
         [ok |-> TRUE,
          db |-> [d EXCEPT !.sessions = @ \cup {[row EXCEPT !.id = id]},
                           !.seq.sessions = id]]

\* a create_session that keeps one session per user
create_session_single(d, clock, token, user_id) ==
    LET expires == clock + SESSION_DURATION_HOURS
        ins == InsertSession([d EXCEPT !.sessions = {s \in @ : s.user_id # user_id}],
                   [id |-> 0, user_id |-> user_id, token |-> token,
                    expires_at |-> isoformat(expires)])
    IN  [db |-> ins.db,
         result |-> IF ins.ok THEN "ok" ELSE "IntegrityError",
         value |-> IF ins.ok THEN token ELSE None]

\* auth.create_session
create_session(d, clock, token, user_id) ==
    LET expires == clock + SESSION_DURATION_HOURS
        ins == InsertSession(d,
                   [id |-> 0, user_id |-> user_id, token |-> token,
                    expires_at |-> isoformat(expires)])
    IN  IF Held(d) THEN Locked(d)
        ELSE [db |-> ins.db,
              result |-> IF ins.ok THEN "ok" ELSE "IntegrityError",
              value |-> IF ins.ok THEN token ELSE None]

\* the comparison of auth.get_user_by_session: expires_at < datetime.utcnow()
IsExpiredInclusive(expires_at, clock) == expires_at <= clock
IsExpired(expires_at, clock) == expires_at < clock

\* a get_user_by_session that answers None for an expired session and leaves
\* its row in the table
resolve_finish_keeping(d, clock, session) ==
    IF IsExpired(datetime_fromisoformat(session.expires_at), clock)
    THEN Ret(d, "ok", None)
    ELSE Ret(d, "ok", IF session.user_id \in Ids(d.users) THEN session.user_id ELSE None)

\* a get_user_by_session that clears every expired session when it finds the
\* one it was asked about expired
resolve_finish_sweeping(d, clock, session) ==
    IF IsExpired(datetime_fromisoformat(session.expires_at), clock)
    THEN Ret([d EXCEPT !.sessions =
                 {s \in @ : ~IsExpired(datetime_fromisoformat(s.expires_at), clock)}],
             "ok", None)
    ELSE Ret(d, "ok", IF session.user_id \in Ids(d.users) THEN session.user_id ELSE None)

\* a get_user_by_session that renews the session it found unexpired: the
\* row is written back with a new expiry
resolve_finish_renewing(d, clock, session) ==
    IF IsExpired(datetime_fromisoformat(session.expires_at), clock)
    THEN Ret([d EXCEPT !.sessions = {s \in @ : s.id # session.id}], "ok", None)
    ELSE Ret([d EXCEPT !.sessions =
                 {s \in @ : s.id # session.id}
                     \cup {[session EXCEPT !.expires_at =
                               isoformat(clock + SESSION_DURATION_HOURS)]}],
             "ok", IF session.user_id \in Ids(d.users) THEN session.user_id ELSE None)

\* auth.get_user_by_session after its first SELECT found `session`: the
\* expiry test against utcnow(), then the DELETE by id or the SELECT of the user
resolve_finish(d, clock, session) ==
    IF IsExpired(datetime_fromisoformat(session.expires_at), clock)
    THEN IF Held(d) THEN Locked(d)
         ELSE Ret([d EXCEPT !.sessions = {s \in @ : s.id # session.id}], "ok", None)
    ELSE Ret(d, "ok", IF session.user_id \in Ids(d.users) THEN session.user_id ELSE None)

\* auth.get_user_by_session with no statement of another thread in between:
\* the user id it returns (None = 0) and the db after
get_user_by_session(d, clock, token) ==
    LET found == {s \in d.sessions : s.token = token} IN
    IF found = {} THEN Ret(d, "ok", None)
    ELSE resolve_finish(d, clock, CHOOSE s \in found : TRUE)

\* a destroy_session that deletes by the owner of the token
DestroyByUser(d, token) ==
    LET owners == {s.user_id : s \in {x \in d.sessions : x.token = token}}
    IN  Ret([d EXCEPT !.sessions = {s \in @ : s.user_id \notin owners}], "ok", None)

\* auth.destroy_session: DELETE FROM sessions WHERE token = ?
destroy_session(d, token) ==
    IF Held(d) THEN Locked(d)
    ELSE Ret([d EXCEPT !.sessions = {s \in @ : s.token # token}], "ok", None)

(* ------------------------- domain operations -------------------------- *)
\* the `fields` lists of the update_* helpers: the columns a request may
\* assign.  The rows of the model carry those that an operation reads
TenderFields == {"reference_code", "title_en", "title_ar", "tender_type", "donor",
                 "description_en", "description_ar", "status", "estimated_value", "currency",
                 "submission_deadline", "issue_date", "assigned_to", "supplier_id"}
SupplierFields == {"name_en", "name_ar", "contact_name", "email", "phone", "address", "notes"}
ProjectFields == {"name_en", "name_ar", "start_date", "end_date", "status", "currency",
                  "contract_value", "cost", "exchange_rate", "amount_received",
                  "amount_invoiced", "profit_local", "payment_status", "guarantee_value",
                  "guarantee_start", "guarantee_end", "guarantee_retained", "notes",
                  "manager_id"}
InvoiceFields == {"amount", "currency", "due_date", "paid_date", "status", "notes"}

\* a nullable foreign key holds NULL or the id of a row (PRAGMA foreign_keys = ON)
RefOk(v, rows) == v = Null \/ (IsNumber(v) /\ v[2] \in Ids(rows))

\* NOT NULL and FOREIGN KEY constraints of a tenders row; created_by is the
\* id of the calling user
TenderRowOk(d, row) ==
    /\ row.title_en # NullText
    /\ row.tender_type # NullText
    /\ row.status # NullText
    /\ RefOk(row.assigned_to, d.users)
    /\ RefOk(row.supplier_id, d.suppliers)
    /\ row.created_by \in Ids(d.users)

SupplierRowOk(d, row) == row.name_en # NullText

\* tender_id is NOT NULL and a foreign key: NULL and the id of no tender are
\* refused alike
ProjectRowOk(d, row) ==
    /\ row.tender_id \in Ids(d.tenders)
    /\ row.name_en # NullText
    /\ row.status # NullText
    /\ RefOk(row.manager_id, d.users)

InvoiceRowOk(d, row) ==
    /\ row.project_id \in Ids(d.projects)
    /\ row.amount # Null
    /\ row.status # NullText

\* ON DELETE CASCADE from projects: their invoices and supplier links
DeleteProjects(d, pids) ==
    [d EXCEPT !.projects = {p \in @ : p.id \notin pids},
              !.project_suppliers = {l \in @ : l.project_id \notin pids},
              !.invoices = {i \in @ : i.project_id \notin pids}]

\* a create_tender that forgot the permission check
create_tender_unchecked(d, data, user) ==
    LET row == [id |-> d.seq.tenders + 1,
                title_en |-> Get(data, "title_en", NullText),
                tender_type |-> Get(data, "tender_type", NullText),
                status |-> Get(data, "status", "draft"),
                submission_deadline |-> Get(data, "submission_deadline", NullDate),
                assigned_to |-> Get(data, "assigned_to", Null),
                supplier_id |-> Get(data, "supplier_id", Null),
                created_by |-> user.id]
    IN  IF ~TenderRowOk(d, row) THEN Ret(d, "IntegrityError", None)
        ELSE Ret([d EXCEPT !.tenders = @ \cup {row}, !.seq.tenders = row.id], "ok", row.id)

\* models.create_tender
create_tender(d, data, user) ==
    IF check_permission(user, "tenders") # "ok" THEN Ret(d, "PermissionError", None)
    ELSE IF Held(d) THEN Locked(d)
    ELSE
    LET row == [id |-> d.seq.tenders + 1,
                title_en |-> Get(data, "title_en", NullText),
                tender_type |-> Get(data, "tender_type", NullText),
                status |-> Get(data, "status", "draft"),
                submission_deadline |-> Get(data, "submission_deadline", NullDate),
                assigned_to |-> Get(data, "assigned_to", Null),
                supplier_id |-> Get(data, "supplier_id", Null),
                created_by |-> user.id]
    IN  IF ~TenderRowOk(d, row) THEN Ret(d, "IntegrityError", None)
        ELSE Ret([d EXCEPT !.tenders = @ \cup {row}, !.seq.tenders = row.id], "ok", row.id)

\* models.update_tender
update_tender(d, tender_id, data, user) ==
    IF check_permission(user, "tenders") # "ok" THEN Ret(d, "PermissionError", None)
    ELSE IF DOMAIN data \cap TenderFields = {} THEN Ret(d, "ok", None)
    ELSE IF Held(d) THEN Locked(d)
    ELSE IF \E t \in d.tenders : t.id = tender_id /\ ~TenderRowOk(d, Assign(t, data, TenderFields))
    THEN Ret(d, "IntegrityError", None)
    ELSE Ret([d EXCEPT !.tenders =
                 {IF t.id = tender_id THEN Assign(t, data, TenderFields) ELSE t : t \in @}],
             "ok", None)

\* models.delete_tender: projects and attachments of the tender go with it
delete_tender(d, tender_id, user) ==
    IF check_permission(user, "tenders") # "ok" THEN Ret(d, "PermissionError", None)
    ELSE IF Held(d) THEN Locked(d)
    ELSE LET pids == {p.id : p \in {q \in d.projects : q.tender_id = tender_id}}
             d1 == DeleteProjects(d, pids)
         IN  Ret([d1 EXCEPT !.tenders = {t \in @ : t.id # tender_id},
                            !.attachments = {a \in @ : a.tender_id # tender_id}],
                 "ok", None)

\* len(os.fsencode(name)): UTF-8 with surrogateescape, which turns each of
\* U+DC80..U+DCFF into one byte
Utf8Bytes(chars) ==
    LET plain == {i \in 1..Len(chars) : chars[i] \notin 56448..56575} IN
    Len(chars) + Cardinality({i \in plain : chars[i] >= 128})
               + Cardinality({i \in plain : chars[i] >= 2048})
               + Cardinality({i \in plain : chars[i] >= 65536})

RECURSIVE Digits(_)
\* len(str(n)) for n >= 0
Digits(n) == IF n < 10 THEN 1 ELSE 1 + Digits(n \div 10)

\* the characters of a name before its first "/"
FirstComponent(chars) ==
    IF \E i \in 1..Len(chars) : chars[i] = 47
    THEN SubSeq(chars, 1, Min({i \in 1..Len(chars) : chars[i] = 47}) - 1)
    ELSE chars

RECURSIVE StripSlashes(_)
\* a name without the "/" it ends in
StripSlashes(chars) ==
    IF chars # <<>> /\ chars[Len(chars)] = 47
    THEN StripSlashes(SubSeq(chars, 1, Len(chars) - 1))
    ELSE chars

\* open(os.path.join(UPLOAD_DIR, f"{tender_id}_{timestamp}_{filename}"), "wb")
\* on Linux: "ok" when the file is created, else the exception.  The name is
\* encoded first (os.fsencode: a surrogate outside U+DC80..U+DCFF cannot be)
\* and may hold no NUL; then the kernel takes the path: ENAMETOOLONG for a
\* path of PATH_MAX bytes or more; with a "/" before the last component the
\* first component is looked up and is too long (ENAMETOOLONG) or does not
\* exist (ENOENT); a single component that ends in "/" is EISDIR, and one of
\* more than NAME_MAX bytes is ENAMETOOLONG.  A filename of None is written
\* as "None"
open_stored(tender_id, filename) ==
    LET chars == IF filename = Null THEN <<78, 111, 110, 101>> ELSE filename[2]
        prefix == Digits(tender_id) + 1 + TIMESTAMP_DIGITS + 1
        body == StripSlashes(chars)
    IN  IF \E i \in 1..Len(chars) : chars[i] \in 55296..57343 /\ chars[i] \notin 56448..56575
        THEN "UnicodeEncodeError"
        ELSE IF \E i \in 1..Len(chars) : chars[i] = 0 THEN "ValueError"
        ELSE IF UPLOAD_DIR_BYTES + 1 + prefix + Utf8Bytes(chars) >= PATH_MAX THEN "OSError"
        ELSE IF \E i \in 1..Len(body) : body[i] = 47
        THEN IF prefix + Utf8Bytes(FirstComponent(chars)) > NAME_MAX
             THEN "OSError" ELSE "FileNotFoundError"
        ELSE IF body # chars THEN "IsADirectoryError"
        ELSE IF prefix + Utf8Bytes(chars) > NAME_MAX THEN "OSError"
        ELSE "ok"

\* INSERT INTO tender_attachments(tender_id, filename, stored_name): the
\* parameters are bound first, and a str with a surrogate cannot be bound
\* (UnicodeEncodeError, before the statement runs); filename is NOT NULL and
\* tender_id REFERENCES tenders(id)
insert_attachment(d, tender_id, filename) ==
    IF filename # Null /\ \E i \in 1..Len(filename[2]) : filename[2][i] \in 55296..57343
    THEN Ret(d, "UnicodeEncodeError", None)
    ELSE IF Held(d) THEN Locked(d)
    ELSE IF tender_id \notin Ids(d.tenders) \/ filename = Null
    THEN Ret(d, "IntegrityError", None)
    ELSE LET id == d.seq.attachments + 1 IN
         Ret([d EXCEPT !.attachments = @ \cup {[id |-> id, tender_id |-> tender_id,
                                                 filename |-> filename]},
                       !.seq.attachments = id],
             "ok", id)

\* models.create_supplier
create_supplier(d, data, user) ==
    IF check_permission(user, "suppliers") # "ok" THEN Ret(d, "PermissionError", None)
    ELSE IF Held(d) THEN Locked(d)
    ELSE
    LET row == [id |-> d.seq.suppliers + 1, name_en |-> Get(data, "name_en", NullText)]
    IN  IF ~SupplierRowOk(d, row) THEN Ret(d, "IntegrityError", None)
        ELSE Ret([d EXCEPT !.suppliers = @ \cup {row}, !.seq.suppliers = row.id], "ok", row.id)

\* models.update_supplier
update_supplier(d, supplier_id, data, user) ==
    IF check_permission(user, "suppliers") # "ok" THEN Ret(d, "PermissionError", None)
    ELSE IF DOMAIN data \cap SupplierFields = {} THEN Ret(d, "ok", None)
    ELSE IF Held(d) THEN Locked(d)
    ELSE IF \E s \in d.suppliers :
                s.id = supplier_id /\ ~SupplierRowOk(d, Assign(s, data, SupplierFields))
    THEN Ret(d, "IntegrityError", None)
    ELSE Ret([d EXCEPT !.suppliers =
                 {IF s.id = supplier_id THEN Assign(s, data, SupplierFields) ELSE s : s \in @}],
             "ok", None)

\* models.delete_supplier: tenders.supplier_id is SET NULL, links are deleted
delete_supplier(d, supplier_id, user) ==
    IF check_permission(user, "suppliers") # "ok" THEN Ret(d, "PermissionError", None)
    ELSE IF Held(d) THEN Locked(d)
    ELSE Ret([d EXCEPT !.suppliers = {s \in @ : s.id # supplier_id},
                       !.tenders = {IF t.supplier_id = Number(supplier_id)
                                    THEN [t EXCEPT !.supplier_id = Null] ELSE t : t \in @},
                       !.project_suppliers = {l \in @ : l.supplier_id # supplier_id}],
             "ok", None)

\* models.create_project
create_project(d, data, user) ==
    IF check_permission(user, "projects") # "ok" THEN Ret(d, "PermissionError", None)
    ELSE IF Held(d) THEN Locked(d)
    ELSE
    LET row == [id |-> d.seq.projects + 1,
                tender_id |-> Get(data, "tender_id", None),
                name_en |-> Get(data, "name_en", NullText),
                status |-> Get(data, "status", "planning"),
                guarantee_end |-> Get(data, "guarantee_end", NullDate),
                amount_received |-> Get(data, "amount_received", Null),
                amount_invoiced |-> Get(data, "amount_invoiced", Null),
                manager_id |-> Get(data, "manager_id", Null)]
    IN  IF ~ProjectRowOk(d, row) THEN Ret(d, "IntegrityError", None)
        ELSE Ret([d EXCEPT !.projects = @ \cup {row}, !.seq.projects = row.id], "ok", row.id)

\* models.update_project
update_project(d, project_id, data, user) ==
    IF check_permission(user, "projects") # "ok" THEN Ret(d, "PermissionError", None)
    ELSE IF DOMAIN data \cap ProjectFields = {} THEN Ret(d, "ok", None)
    ELSE IF Held(d) THEN Locked(d)
    ELSE IF \E p \in d.projects :
                p.id = project_id /\ ~ProjectRowOk(d, Assign(p, data, ProjectFields))
    THEN Ret(d, "IntegrityError", None)
    ELSE Ret([d EXCEPT !.projects =
                 {IF p.id = project_id THEN Assign(p, data, ProjectFields) ELSE p : p \in @}],
             "ok", None)

RECURSIVE InsertLinks(_, _, _)
\* models.assign_supplier_to_project, second statement, skipped for an empty
\* list: executemany(INSERT INTO project_suppliers ...).  The pairs are inserted one
\* after the other, and the first one refused (a missing project or supplier,
\* a pair already there) raises and ends the call
InsertLinks(d, project_id, supplier_ids) ==
    IF supplier_ids = <<>> THEN Ret(d, "ok", None)
    ELSE IF Held(d) THEN Locked(d)
    ELSE LET link == [project_id |-> project_id, supplier_id |-> Head(supplier_ids)] IN
         IF \/ project_id \notin Ids(d.projects)
            \/ link.supplier_id \notin Ids(d.suppliers)
            \/ link \in d.project_suppliers
         THEN Ret(d, "IntegrityError", None)
         ELSE InsertLinks([d EXCEPT !.project_suppliers = @ \cup {link}],
                          project_id, Tail(supplier_ids))

\* models.assign_supplier_to_project, first statement, committed on its own:
\* DELETE FROM project_suppliers WHERE project_id = ?
DeleteLinks(d, project_id) ==
    [d EXCEPT !.project_suppliers = {l \in @ : l.project_id # project_id}]

\* models.list_project_suppliers
list_project_suppliers(d, project_id) ==
    {l.supplier_id : l \in {x \in d.project_suppliers : x.project_id = project_id}}

\* models.add_invoice
add_invoice(d, project_id, data, user) ==
    IF check_permission(user, "finance") # "ok" THEN Ret(d, "PermissionError", None)
    ELSE IF Held(d) THEN Locked(d)
    ELSE
    LET row == [id |-> d.seq.invoices + 1,
                project_id |-> project_id,
                amount |-> Get(data, "amount", Null),
                due_date |-> Get(data, "due_date", NullDate),
                status |-> Get(data, "status", "unpaid")]
    IN  IF ~InvoiceRowOk(d, row) THEN Ret(d, "IntegrityError", None)
        ELSE Ret([d EXCEPT !.invoices = @ \cup {row}, !.seq.invoices = row.id], "ok", row.id)

\* models.update_invoice
update_invoice(d, invoice_id, data, user) ==
    IF check_permission(user, "finance") # "ok" THEN Ret(d, "PermissionError", None)
    ELSE IF DOMAIN data \cap InvoiceFields = {} THEN Ret(d, "ok", None)
    ELSE IF Held(d) THEN Locked(d)
    ELSE IF \E i \in d.invoices :
                i.id = invoice_id /\ ~InvoiceRowOk(d, Assign(i, data, InvoiceFields))
    THEN Ret(d, "IntegrityError", None)
    ELSE Ret([d EXCEPT !.invoices =
                 {IF i.id = invoice_id THEN Assign(i, data, InvoiceFields) ELSE i : i \in @}],
             "ok", None)

\* models.list_invoices: the invoices of a project (ORDER BY due_date not modelled);
\* it takes no user and checks no permission
list_invoices(d, project_id) == {i \in d.invoices : i.project_id = project_id}

\* models.get_project
get_project(d, project_id) == {p \in d.projects : p.id = project_id}

RECURSIVE Sum(_, _)
\* SUM(column) over rows: NULL is left out, and the total of no number is
\* NULL, which financial_pipeline turns into 0
Sum(rows, column) ==
    IF rows = {} THEN 0
    ELSE LET r == CHOOSE x \in rows : TRUE
         IN  (IF IsNumber(r[column]) THEN r[column][2] ELSE 0) + Sum(rows \ {r}, column)

(* ---------------------------- notifications --------------------------- *)
\* f"tender_close_{id}", f"invoice_due_{id}", f"guarantee_due_{id}"
UniqueKey(prefix, id) == <<prefix, id>>

\* INSERT INTO notifications without the UNIQUE constraint on unique_key
InsertNotificationNoUnique(d, clock, n) ==
    LET id == d.seq.notifications + 1 IN
    Ret([d EXCEPT !.notifications = @ \cup
             {[id |-> id, unique_key |-> n.unique_key, title |-> n.title,
               message |-> n.message, level |-> n.level, target_role |-> n.target_role,
               related_type |-> NullText, related_id |-> None,
               created_at |-> clock, is_read |-> 0]},
          !.seq.notifications = id],
        "ok", id)

\* INSERT INTO notifications(unique_key, title, message, level, target_role):
\* unique_key is UNIQUE; related_type and related_id are not given (NULL);
\* created_at is CURRENT_TIMESTAMP and is_read is 0 by default
InsertNotification(d, clock, n) ==
    IF Held(d) THEN Locked(d)
    ELSE IF \E x \in d.notifications : x.unique_key = n.unique_key
    THEN Ret(d, "IntegrityError", None)
    ELSE LET id == d.seq.notifications + 1 IN
         Ret([d EXCEPT !.notifications = @ \cup
                  {[id |-> id, unique_key |-> n.unique_key, title |-> n.title,
                    message |-> n.message, level |-> n.level, target_role |-> n.target_role,
                    related_type |-> NullText, related_id |-> None,
                    created_at |-> clock, is_read |-> 0]},
               !.seq.notifications = id],
             "ok", id)

\* the SELECT of models.ensure_notification
Existing(d, unique_key) == {x \in d.notifications : x.unique_key = unique_key}

\* models.ensure_notification: it returns None on both ways; the id of the
\* row it inserts is dropped
ensure_notification(d, clock, n) ==
    IF Existing(d, n.unique_key) # {} THEN Ret(d, "ok", None)
    ELSE LET r == InsertNotification(d, clock, n) IN Ret(r.db, r.result, None)

\* a rule 1 that counts the day of the deadline as a day left
TenderAlertsCountingToday(d, today) ==
    LET soon == today + TENDER_SOON_DAYS
        rows == {t \in d.tenders :
                    /\ t.submission_deadline # NullDate
                    /\ t.status \in {"draft", "in_preparation", "submitted"}}
        hits == {t \in rows :
                    LET p == date_fromisoformat(t.submission_deadline) IN
                    p.ok /\ today <= p.date /\ p.date <= soon}
        ids == Ascending(Ids(hits))
    IN  [k \in 1..Len(ids) |->
            LET row == RowOf(hits, ids[k])
                days == date_fromisoformat(row.submission_deadline).date - today + 1
            IN  [unique_key |-> UniqueKey("tender_close", row.id),
                 title |-> "Tender closing soon",
                 message |-> <<row.title_en, days>>,
                 level |-> "warning",
                 target_role |-> "procurement"]]

\* a rule 1 whose window leaves out the last day (deadline < today + 5)
TenderAlertsExclusive(d, today) ==
    LET soon == today + TENDER_SOON_DAYS
        rows == {t \in d.tenders :
                    /\ t.submission_deadline # NullDate
                    /\ t.status \in {"draft", "in_preparation", "submitted"}}
        hits == {t \in rows :
                    LET p == date_fromisoformat(t.submission_deadline) IN
                    p.ok /\ today <= p.date /\ p.date < soon}
        ids == Ascending(Ids(hits))
    IN  [k \in 1..Len(ids) |->
            LET row == RowOf(hits, ids[k])
                days == date_fromisoformat(row.submission_deadline).date - today
            IN  [unique_key |-> UniqueKey("tender_close", row.id),
                 title |-> "Tender closing soon",
                 message |-> <<row.title_en, days>>,
                 level |-> "warning",
                 target_role |-> "procurement"]]

\* the rows of rule 1 that pass the window test, as the calls they make
TenderAlerts(d, today) ==
    LET soon == today + TENDER_SOON_DAYS
        rows == {t \in d.tenders :
                    /\ t.submission_deadline # NullDate
                    /\ t.status \in {"draft", "in_preparation", "submitted"}}
        hits == {t \in rows :
                    LET p == date_fromisoformat(t.submission_deadline) IN
                    p.ok /\ today <= p.date /\ p.date <= soon}
        ids == Ascending(Ids(hits))
    IN  [k \in 1..Len(ids) |->
            LET row == RowOf(hits, ids[k])
                days == date_fromisoformat(row.submission_deadline).date - today
            IN  [unique_key |-> UniqueKey("tender_close", row.id),
                 title |-> "Tender closing soon",
                 message |-> <<row.title_en, days>>,
                 level |-> "warning",
                 target_role |-> "procurement"]]

\* a rule 2 that also tells the administrators: each overdue invoice gives a
\* second call, keyed invoice_due_admin_<id>, with target_role admin
InvoiceAlertsForAdmin(d, today) ==
    LET rows == {i \in d.invoices :
                    /\ i.project_id \in Ids(d.projects)
                    /\ i.status # "paid"
                    /\ i.due_date # NullDate}
        hits == {i \in rows :
                    LET p == date_fromisoformat(i.due_date) IN p.ok /\ p.date < today}
        ids == Ascending(Ids(hits))
    IN  [k \in 1..(2 * Len(ids)) |->
            LET row == RowOf(hits, ids[(k + 1) \div 2])
            IN  [unique_key |-> UniqueKey(IF k % 2 = 1 THEN "invoice_due"
                                                       ELSE "invoice_due_admin", row.id),
                 title |-> "Invoice overdue",
                 message |-> <<RowOf(d.projects, row.project_id).name_en, row.due_date>>,
                 level |-> "danger",
                 target_role |-> IF k % 2 = 1 THEN "finance" ELSE "admin"]]

\* a rule 2 that also reports an invoice due today (due <= today)
InvoiceAlertsInclusive(d, today) ==
    LET rows == {i \in d.invoices :
                    /\ i.project_id \in Ids(d.projects)
                    /\ i.status # "paid"
                    /\ i.due_date # NullDate}
        hits == {i \in rows :
                    LET p == date_fromisoformat(i.due_date) IN p.ok /\ p.date <= today}
        ids == Ascending(Ids(hits))
    IN  [k \in 1..Len(ids) |->
            LET row == RowOf(hits, ids[k])
            IN  [unique_key |-> UniqueKey("invoice_due", row.id),
                 title |-> "Invoice overdue",
                 message |-> <<RowOf(d.projects, row.project_id).name_en, row.due_date>>,
                 level |-> "danger",
                 target_role |-> "finance"]]

\* rule 2: invoices JOIN projects, not paid, due before today
InvoiceAlerts(d, today) ==
    LET rows == {i \in d.invoices :
                    /\ i.project_id \in Ids(d.projects)
                    /\ i.status # "paid"
                    /\ i.due_date # NullDate}
        hits == {i \in rows :
                    LET p == date_fromisoformat(i.due_date) IN p.ok /\ p.date < today}
        ids == Ascending(Ids(hits))
    IN  [k \in 1..Len(ids) |->
            LET row == RowOf(hits, ids[k])
            IN  [unique_key |-> UniqueKey("invoice_due", row.id),
                 title |-> "Invoice overdue",
                 message |-> <<RowOf(d.projects, row.project_id).name_en, row.due_date>>,
                 level |-> "danger",
                 target_role |-> "finance"]]

\* a rule 3 whose window leaves out the tenth day (end < today + 10)
GuaranteeAlertsExclusive(d, today) ==
    LET rows == {p \in d.projects : p.guarantee_end # NullDate}
        hits == {p \in rows :
                    LET e == date_fromisoformat(p.guarantee_end) IN
                    e.ok /\ today <= e.date /\ e.date < today + GUARANTEE_SOON_DAYS}
        ids == Ascending(Ids(hits))
    IN  [k \in 1..Len(ids) |->
            LET row == RowOf(hits, ids[k])
                days == date_fromisoformat(row.guarantee_end).date - today
            IN  [unique_key |-> UniqueKey("guarantee_due", row.id),
                 title |-> "Guarantee expiring",
                 message |-> <<row.name_en, days>>,
                 level |-> "info",
                 target_role |-> "project_manager"]]

\* rule 3: projects whose guarantee ends within ten days
GuaranteeAlerts(d, today) ==
    LET rows == {p \in d.projects : p.guarantee_end # NullDate}
        hits == {p \in rows :
                    LET e == date_fromisoformat(p.guarantee_end) IN
                    e.ok /\ today <= e.date /\ e.date <= today + GUARANTEE_SOON_DAYS}
        ids == Ascending(Ids(hits))
    IN  [k \in 1..Len(ids) |->
            LET row == RowOf(hits, ids[k])
                days == date_fromisoformat(row.guarantee_end).date - today
            IN  [unique_key |-> UniqueKey("guarantee_due", row.id),
                 title |-> "Guarantee expiring",
                 message |-> <<row.name_en, days>>,
                 level |-> "info",
                 target_role |-> "project_manager"]]

RECURSIVE EnsureAll(_, _, _)
\* the for loop of one rule: ensure_notification for each hit; an exception ends it
EnsureAll(d, clock, calls) ==
    IF calls = <<>> THEN Ret(d, "ok", None)
    ELSE LET r == ensure_notification(d, clock, Head(calls)) IN
         IF r.result # "ok" THEN r ELSE EnsureAll(r.db, clock, Tail(calls))

\* models.generate_notifications, run by one caller from start to end
generate_notifications(d, clock) ==
    ThenDb(ThenDb(EnsureAll(d, clock, TenderAlerts(d, Today(clock))),
                  LAMBDA d1 : EnsureAll(d1, clock, InvoiceAlerts(d1, Today(clock)))),
           LAMBDA d2 : EnsureAll(d2, clock, GuaranteeAlerts(d2, Today(clock))))

\* models.mark_notification_read: UPDATE notifications SET is_read = 1 WHERE id = ?
mark_notification_read(d, notification_id) ==
    IF Held(d) THEN Locked(d)
    ELSE Ret([d EXCEPT !.notifications =
                 {IF x.id = notification_id THEN [x EXCEPT !.is_read = 1] ELSE x : x \in @}],
             "ok", None)


\* models.list_notifications: SELECT * FROM notifications WHERE target_role = ?
\* ORDER BY created_at DESC.  SQL leaves the order of rows with equal
\* created_at open, so the result is any one of these sequences of ids
list_notifications(d, role) ==
    LET rows == {x \in d.notifications : x.target_role = role}
        n == Cardinality(rows)
    IN  {order \in [1..n -> Ids(rows)] :
            /\ \A i \in 1..n : \A j \in 1..n : i # j => order[i] # order[j]
            /\ \A i \in 1..n : \A j \in 1..n :
                  i < j => RowOf(rows, order[i]).created_at >= RowOf(rows, order[j]).created_at}

\* models.ensure_sample_data, called on the main thread: nothing when a
\* tender is stored or no user is named admin; else three suppliers, four
\* tenders, two projects with their suppliers and three invoices are
\* inserted with dates around today, and generate_notifications runs.  The
\* first INSERT is refused while another connection holds the write lock,
\* and commits what the main thread's own connection has pending
ensure_sample_data(d, clock) ==
    IF d.tenders # {} \/ ~\E u \in d.users : u.username = "admin" THEN Ret(d, "ok", None)
    ELSE IF d.busy THEN Locked(d)
    ELSE
    LET today == Today(clock)
        UserId(name) == (CHOOSE u \in d.users : u.username = name).id
        UserRef(name) == IF \E u \in d.users : u.username = name
                         THEN Number(UserId(name)) ELSE Null
        s == d.seq.suppliers
        t == d.seq.tenders
        p == d.seq.projects
        i == d.seq.invoices
        Tender(k, type, status, days, supplier) ==
            [id |-> t + k, title_en |-> "Sample", tender_type |-> type, status |-> status,
             submission_deadline |-> IsoDate(today + days),
             assigned_to |-> UserRef("procurement"), supplier_id |-> Number(s + supplier),
             created_by |-> UserId("admin")]
        Project(k, tender, status, days, received, invoiced) ==
            [id |-> p + k, tender_id |-> t + tender, name_en |-> "Sample", status |-> status,
             guarantee_end |-> IsoDate(today + days),
             amount_received |-> Number(received), amount_invoiced |-> Number(invoiced),
             manager_id |-> UserRef("project")]
        Invoice(k, project, amount, days) ==
            [id |-> i + k, project_id |-> p + project, amount |-> Number(amount),
             due_date |-> IsoDate(today + days), status |-> "unpaid"]
        filled ==
            [d EXCEPT
                !.pending = FALSE,
                !.suppliers = @ \cup {[id |-> s + k, name_en |-> "Sample"] : k \in 1..3},
                !.tenders = @ \cup {Tender(1, "RFP", "awarded", 0 - 45, 1),
                                    Tender(2, "ITB", "submitted", 12, 1),
                                    Tender(3, "RFQ", "in_preparation", 28, 3),
                                    Tender(4, "RFP", "on_hold", 5, 2)},
                !.projects = @ \cup {Project(1, 1, "executing", 6, 520000, 780000),
                                     Project(2, 2, "planning", 130, 0, 52000)},
                !.project_suppliers = @ \cup {[project_id |-> p + 1, supplier_id |-> s + 1],
                                              [project_id |-> p + 1, supplier_id |-> s + 3],
                                              [project_id |-> p + 2, supplier_id |-> s + 1]},
                !.invoices = @ \cup {Invoice(1, 1, 25000, 0 - 5), Invoice(2, 1, 18000, 18),
                                     Invoice(3, 2, 52000, 35)},
                !.seq.suppliers = s + 3, !.seq.tenders = t + 4,
                !.seq.projects = p + 2, !.seq.invoices = i + 3]
    IN  generate_notifications(filled, clock)
(* ------------------------------- Init --------------------------------- *)
Workers == 1..MaxWorkers

\* the thread a new request is served by: threads are alike, so the first
\* one that is in no handler
Free == {w \in Workers : workers[w].pc = "idle" /\ \A v \in 1..(w - 1) : workers[v].pc # "idle"}

\* a request thread that is in no handler
Idle == [pc |-> "idle", op |-> "", user |-> None, arg |-> None, body |-> None,
         held |-> None, rule |-> 0, today |-> 0, calls |-> <<>>]

\* database.init_db and auth.ensure_default_users on a file without tables:
\* the store the setUp of the tests leaves
InitDb == ensure_default_users(init_db(reset_database(<<>>)))

\* server.run_server on a file without tables, at the hour the clock starts
\* from: init_db, ensure_default_users, ensure_sample_data
StartDb == ensure_sample_data(InitDb, 0).db

\* the program starts as the server on a new file, or under the tests
Init ==
    /\ now = 0
    /\ db \in {StartDb, InitDb}
    /\ files = 0
    /\ workers = [w \in Workers |-> Idle]
    /\ issued = {}
    /\ destroyed = {}
    /\ outcome = Outcome("init", None, None, None, "ok", None)

\* server.run_server: a new process starts on the database file as it is,
\* with no thread, no open connection and so no lock left of the process
\* before; init_db, ensure_default_users and ensure_sample_data run on the
\* main thread before the first request is served
RunServer ==
    /\ \E r \in {ensure_sample_data(
                      ensure_default_users(
                          init_db([db EXCEPT !.busy = FALSE, !.pending = FALSE])), now)} :
          /\ db' = r.db
          /\ outcome' = Outcome("run_server", None, None, None, r.result, None)
    /\ workers' = [w \in Workers |-> Idle]
    /\ UNCHANGED <<now, files, issued, destroyed>>

\* the setUp of the tests, run on the main thread between two tests with no
\* request in flight: reset_database, init_db, ensure_default_users.  The
\* DROP TABLE statements are refused while the connection of an ended thread
\* holds the write lock; a transaction the main thread itself has pending is
\* committed by them
SetUp ==
    /\ \A w \in Workers : workers[w] = Idle
    /\ IF db.busy
       THEN /\ outcome' = Outcome("reset_database", None, None, None, "OperationalError", None)
            /\ UNCHANGED db
       ELSE /\ db' = ensure_default_users(init_db(reset_database(db)))
            /\ outcome' = Outcome("reset_database", None, None, None, "ok", None)
    /\ UNCHANGED <<now, files, workers, issued, destroyed>>

(* ------------------------ connections and locks ------------------------ *)
\* database.get_cursor when the statement raised: commit is skipped and
\* nothing is rolled back.  After an IntegrityError the connection of the
\* request thread stays open with its write transaction, and the request is
\* over
After(r) == [r.db EXCEPT !.busy = @ \/ r.result = "IntegrityError"]

\* the same on the main thread, which lives on: the transaction its failed
\* INSERT left open is its own, and its next statement that succeeds commits
AfterMain(r) ==
    [r.db EXCEPT !.pending = IF r.result = "IntegrityError" THEN TRUE
                             ELSE IF r.result = "ok" THEN FALSE
                             ELSE @]

\* the collector frees the connection of a thread that has ended: its
\* transaction is rolled back and the write lock is released
CollectGarbage ==
    /\ db.busy
    /\ db' = [db EXCEPT !.busy = FALSE]
    /\ outcome' = Outcome("collect", None, None, None, "ok", None)
    /\ UNCHANGED <<now, files, workers, issued, destroyed>>

\* the exception `result` leaves the handler a thread is in: handle_api
\* answers 500 to the request
Raised(wk, result) ==
    Outcome(wk.op, wk.user, wk.arg, wk.body, IF wk.op = "request" THEN "500" ELSE result, None)

(* --------------------------- session actions --------------------------- *)
\* time passes
Tick ==
    /\ now + TickHours <= MaxNow
    /\ now' = now + TickHours
    /\ outcome' = Outcome("tick", None, None, None, "ok", None)
    /\ UNCHANGED <<db, files, workers, issued, destroyed>>

\* server.login after a successful authenticate: auth.create_session(user["id"])
CreateSession(user_id) ==
    /\ Cardinality(issued) < MaxSessions
    /\ LET token == token_hex(issued)
           r == create_session(db, now, token, user_id)
       IN  /\ db' = After(r)
           /\ issued' = IF r.result = "ok"
                        THEN issued \cup {[token |-> token, user_id |-> user_id, at |-> now]}
                        ELSE issued
           /\ outcome' = Outcome("create_session", user_id, token, None, r.result, r.value)
    /\ UNCHANGED <<now, files, workers, destroyed>>

\* get_user_by_session(token) on a request thread, first statement: SELECT *
\* FROM sessions WHERE token = ?.  Without a row the call returns None
ResolveStart(w, token) ==
    /\ workers[w].pc = "idle"
    /\ LET found == {s \in db.sessions : s.token = token} IN
       IF found = {}
       THEN /\ outcome' = Outcome("get_user_by_session", None, token, None, "ok", None)
            /\ UNCHANGED workers
       ELSE /\ workers' = [workers EXCEPT ![w] =
                              [Idle EXCEPT !.pc = "resolve", !.op = "get_user_by_session",
                                           !.arg = token,
                                           !.held = CHOOSE s \in found : TRUE]]
            /\ UNCHANGED outcome
    /\ UNCHANGED <<now, db, files, issued, destroyed>>

\* the rest of the call, with the row the thread read: what the call
\* returns, and for a request to a protected route the 401 of require_user
\* or the way on to the handler
ResolveFinish(w) ==
    /\ workers[w].pc = "resolve"
    /\ LET wk == workers[w]
           r == resolve_finish(db, now, wk.held)
       IN  /\ db' = r.db
           /\ IF wk.op = "get_user_by_session"
              THEN /\ outcome' = Outcome(wk.op, None, wk.arg, None, r.result, r.value)
                   /\ workers' = [workers EXCEPT ![w] = Idle]
              ELSE IF r.result # "ok"
              THEN /\ outcome' = Raised(wk, r.result)
                   /\ workers' = [workers EXCEPT ![w] = Idle]
              ELSE IF r.value = None
              THEN /\ outcome' = Outcome(wk.op, None, wk.arg, wk.body, "401", None)
                   /\ workers' = [workers EXCEPT ![w] = Idle]
              ELSE /\ workers' = [workers EXCEPT ![w].pc = "handler", ![w].user = r.value,
                                                 ![w].held = None]
                   /\ UNCHANGED outcome
    /\ UNCHANGED <<now, files, issued, destroyed>>

\* server.logout with cookie `token`: auth.destroy_session(token)
DestroySession(token) ==
    /\ LET r == destroy_session(db, token) IN
       /\ db' = r.db
       /\ destroyed' = IF r.result = "ok"
                       THEN destroyed \cup ({token} \cap IssuedTokens(issued))
                       ELSE destroyed
       /\ outcome' = Outcome("destroy_session", None, token, None, r.result, None)
    /\ UNCHANGED <<now, files, workers, issued>>

\* the users that log in
LoginUsers == {1, 5}

\* sessions are created, resolved and destroyed by request threads whose
\* statements interleave (ThreadingHTTPServer, one SQLite connection per
\* thread, every statement committed on its own)
NextSession ==
    \/ Tick
    \/ \E u \in LoginUsers : CreateSession(u)
    \/ \E w \in Free : \E t \in Tokens \cup {UnknownToken} : ResolveStart(w, t)
    \/ \E w \in Workers : ResolveFinish(w)
    \/ \E t \in Tokens \cup {UnknownToken} : DestroySession(t)

SpecSession == Init /\ [][NextSession]_vars

(* ---------------------- access-controlled actions ---------------------- *)
\* rows ever inserted into the domain tables
Inserted(d) == d.seq.tenders + d.seq.suppliers + d.seq.projects + d.seq.invoices

\* of these, the rows that requests inserted: those beyond the sample data
Created(d) ==
    LET Beyond(rows, sample) == IF rows >= sample THEN rows - sample ELSE rows
    IN  Beyond(Inserted(d), Inserted(StartDb))

\* the ids a request may name: every id ever given out, and one never given out
IdsUpTo(last) == 1..(last + 1)

\* the first id and one never given out
SomeIds(last) == {1, last + 1}

\* the row that got the first id, and the row that got id `last`, when stored
FirstId(rows) == Ids(rows) \cap {1}
NewestId(rows, last) == Ids(rows) \cap {last}

\* what the gated helpers write
Stored(d) == <<d.tenders, d.suppliers, d.projects, d.project_suppliers, d.invoices>>

\* a helper of one statement called for an authenticated user: the db and the
\* outcome it leaves
Apply(op, user, arg, body, r) ==
    /\ db' = After(r)
    /\ outcome' = Outcome(op, user.id, arg, body, r.result, r.value)
    /\ UNCHANGED <<now, files, workers, issued, destroyed>>

\* auth.create_user, called on the main thread as the tests call it
CreateUser(username, password, salt, role) ==
    /\ db.seq.users < MaxUsers \/ \E u \in db.users : u.username = username
    /\ \E r \in {create_user(db, username, password, salt, role)} :
       /\ db' = AfterMain(r)
       /\ outcome' = Outcome("create_user", None, username,
                             [password |-> password, role |-> role], r.result, r.value)
    /\ UNCHANGED <<now, files, workers, issued, destroyed>>

CheckPermission(user, area) ==
    /\ outcome' = Outcome("check_permission", user.id, area, None, check_permission(user, area), None)
    /\ UNCHANGED <<now, db, files, workers, issued, destroyed>>

\* POST /api/tenders
CreateTender(user, data) ==
    /\ Created(db) < MaxRows
    /\ Apply("create_tender", user, None, data, create_tender(db, data, user))

\* PUT /api/tenders/<id>
UpdateTender(user, id, data) == Apply("update_tender", user, id, data, update_tender(db, id, data, user))

\* DELETE /api/tenders/<id>
DeleteTender(user, id) == Apply("delete_tender", user, id, None, delete_tender(db, id, user))

\* POST /api/tenders/<id>/attachments, server.upload_attachment, with content
\* in the body: 400 without a filename (None or ""), else save_attachment as
\* far as its file: the name is built, the file is opened, written and closed
UploadAttachment(w, user, id, filename) ==
    /\ files < MaxUploads
    /\ workers[w].pc = "idle"
    /\ IF filename = Null \/ filename = Text(<<>>)
       THEN /\ outcome' = Outcome("save_attachment", user.id, id, filename, "400", None)
            /\ UNCHANGED <<files, workers>>
       ELSE IF open_stored(id, filename) # "ok"
       THEN /\ outcome' = Outcome("save_attachment", user.id, id, filename,
                                  open_stored(id, filename), None)
            /\ UNCHANGED <<files, workers>>
       ELSE /\ files' = files + 1
            /\ workers' = [workers EXCEPT ![w] =
                              [Idle EXCEPT !.pc = "attachment", !.op = "save_attachment",
                                           !.user = user.id, !.arg = id, !.body = filename]]
            /\ UNCHANGED outcome
    /\ UNCHANGED <<now, db, issued, destroyed>>

\* save_attachment, the statement after the file: INSERT INTO
\* tender_attachments.  An INSERT that is refused leaves the file where it is
InsertAttachment(w) ==
    /\ workers[w].pc = "attachment"
    /\ LET wk == workers[w]
           r == insert_attachment(db, wk.arg, wk.body)
       IN  /\ db' = After(r)
           /\ outcome' = Outcome(wk.op, wk.user, wk.arg, wk.body, r.result, r.value)
    /\ workers' = [workers EXCEPT ![w] = Idle]
    /\ UNCHANGED <<now, files, issued, destroyed>>

\* POST /api/suppliers
CreateSupplier(user, data) ==
    /\ Created(db) < MaxRows
    /\ Apply("create_supplier", user, None, data, create_supplier(db, data, user))

\* PUT /api/suppliers/<id>
UpdateSupplier(user, id, data) ==
    Apply("update_supplier", user, id, data, update_supplier(db, id, data, user))

\* DELETE /api/suppliers/<id>
DeleteSupplier(user, id) == Apply("delete_supplier", user, id, None, delete_supplier(db, id, user))

\* POST /api/projects
CreateProject(user, data) ==
    /\ Created(db) < MaxRows
    /\ Apply("create_project", user, None, data, create_project(db, data, user))

\* PUT /api/projects/<id>
UpdateProject(user, id, data) ==
    Apply("update_project", user, id, data, update_project(db, id, data, user))

\* POST /api/projects/<id>/suppliers, models.assign_supplier_to_project as
\* far as its first statement: the permission check and the DELETE of the
\* project's links, committed on its own.  With an empty list that is all
AssignSuppliers(w, user, id, supplier_ids) ==
    /\ workers[w].pc = "idle"
    /\ IF check_permission(user, "projects") # "ok" \/ Held(db)
       THEN /\ outcome' = Outcome("assign_supplier_to_project", user.id, id, supplier_ids,
                                  IF check_permission(user, "projects") # "ok"
                                  THEN "PermissionError" ELSE "OperationalError", None)
            /\ UNCHANGED <<db, workers>>
       ELSE /\ db' = DeleteLinks(db, id)
            /\ IF supplier_ids = <<>>
               THEN /\ outcome' = Outcome("assign_supplier_to_project", user.id, id,
                                          supplier_ids, "ok", None)
                    /\ UNCHANGED workers
               ELSE /\ workers' = [workers EXCEPT ![w] =
                                      [Idle EXCEPT !.pc = "links",
                                                   !.op = "assign_supplier_to_project",
                                                   !.user = user.id, !.arg = id,
                                                   !.body = supplier_ids]]
                    /\ UNCHANGED outcome
    /\ UNCHANGED <<now, files, issued, destroyed>>

\* assign_supplier_to_project, second statement: executemany(INSERT).  When
\* a pair is refused the pairs inserted before it stay in the transaction
\* that the connection keeps open, and no other connection sees them
InsertSupplierLinks(w) ==
    /\ workers[w].pc = "links"
    /\ LET wk == workers[w]
           r == InsertLinks(db, wk.arg, wk.body)
       IN  /\ db' = After(IF r.result = "ok" THEN r ELSE Ret(db, r.result, None))
           /\ outcome' = Outcome(wk.op, wk.user, wk.arg, wk.body, r.result, None)
    /\ workers' = [workers EXCEPT ![w] = Idle]
    /\ UNCHANGED <<now, files, issued, destroyed>>

\* POST /api/projects/<id>/invoices
AddInvoice(user, id, data) ==
    /\ Created(db) < MaxRows
    /\ Apply("add_invoice", user, id, data, add_invoice(db, id, data, user))

\* PUT /api/invoices/<id>
UpdateInvoice(user, id, data) ==
    Apply("update_invoice", user, id, data, update_invoice(db, id, data, user))

\* GET /api/projects/<id>, server.get_project, first SELECT: 404 without the
\* project
GetProject(w, user, id) ==
    /\ workers[w].pc = "idle"
    /\ IF get_project(db, id) = {}
       THEN /\ outcome' = Outcome("get_project", user.id, id, None, "404", None)
            /\ UNCHANGED workers
       ELSE /\ workers' = [workers EXCEPT ![w] =
                              [Idle EXCEPT !.pc = "suppliers", !.op = "get_project",
                                           !.user = user.id, !.arg = id]]
            /\ UNCHANGED outcome
    /\ UNCHANGED <<now, db, files, issued, destroyed>>

\* server.get_project, second SELECT: list_project_suppliers
GetProjectSuppliers(w) ==
    /\ workers[w].pc = "suppliers"
    /\ workers' = [workers EXCEPT ![w].pc = "invoices",
                                  ![w].held = list_project_suppliers(db, workers[w].arg)]
    /\ UNCHANGED <<now, db, files, issued, destroyed, outcome>>

\* server.get_project, third SELECT: list_invoices, and the answer
GetProjectInvoices(w) ==
    /\ workers[w].pc = "invoices"
    /\ LET wk == workers[w] IN
       outcome' = Outcome(wk.op, wk.user, wk.arg, None, "ok",
                          [suppliers |-> wk.held, invoices |-> Ids(list_invoices(db, wk.arg))])
    /\ workers' = [workers EXCEPT ![w] = Idle]
    /\ UNCHANGED <<now, db, files, issued, destroyed>>

\* the request bodies the access-control runs draw from; of the changes one
\* names a column that the rows of the model do not carry, and one no column
TenderBodies == {[title_en |-> "T", tender_type |-> "RFQ"], [title_en |-> "T"]}
TenderChanges == {[status |-> "awarded"], [donor |-> "D"], <<>>}
SupplierChanges == {[name_en |-> "S2"], [email |-> "E"]}
ProjectChanges == {[guarantee_end |-> IsoDate(3)], [payment_status |-> "P"]}
ProjectBodies(d) == {[tender_id |-> t, name_en |-> "P", amount_received |-> Number(200),
                      amount_invoiced |-> Number(500)] : t \in SomeIds(d.seq.tenders)}
\* lists of at most two supplier ids: none, the first supplier, the first
\* supplier twice
SupplierIdLists == {<<>>, <<1>>, <<1, 1>>}
\* the names "a", "s/a" (a directory that does not exist), "a/", the lone
\* surrogates U+D800 and U+DC80, "a" and NUL, and the shortest name of the
\* letter a that is too long for a tender id of one digit
Filenames ==
    {Text(<<97>>), Text(<<115, 47, 97>>), Text(<<97, 47>>), Text(<<55296>>), Text(<<56448>>),
     Text(<<97, 0>>), Text([i \in 1..(NAME_MAX - TIMESTAMP_DIGITS - 2) |-> 97])}
InvoiceBodies == {[amount |-> Number(100), due_date |-> IsoDate(0)]}
InvoiceChanges == {[status |-> "paid"], [notes |-> "N"]}
(* ------------------------- alert rule engine --------------------------- *)
\* the next calendar day begins
NextDay ==
    /\ Today(now) < MaxDay
    /\ now' = (Today(now) + 1) * HoursPerDay
    /\ outcome' = Outcome("next_day", None, None, None, "ok", None)
    /\ UNCHANGED <<db, files, workers, issued, destroyed>>

\* the SELECT of the rule a thread enters, as the ensure_notification calls
\* its for loop will make
RuleAlerts(d, rule, today) ==
    IF rule = 1 THEN TenderAlerts(d, today)
    ELSE IF rule = 2 THEN InvoiceAlerts(d, today)
    ELSE GuaranteeAlerts(d, today)

\* a thread that enters generate_notifications inside the handler `op`:
\* date.today() and the SELECT of the first rule
Scanning(op, user, arg, body) ==
    [Idle EXCEPT !.pc = "select", !.op = op, !.user = user, !.arg = arg, !.body = body,
                 !.rule = 1, !.today = Today(now),
                 !.calls = RuleAlerts(db, 1, Today(now))]

\* a generate_notifications in which a date that does not parse is not
\* caught: a tender with such a deadline ends the call with ValueError
GenerateNotificationsUnguarded(w) ==
    /\ workers[w].pc = "idle"
    /\ IF \E t \in db.tenders :
             /\ t.submission_deadline # NullDate
             /\ ~date_fromisoformat(t.submission_deadline).ok
       THEN /\ outcome' = Outcome("generate_notifications", None, Today(now), None,
                                  "ValueError", None)
            /\ UNCHANGED workers
       ELSE /\ workers' = [workers EXCEPT ![w] =
                              Scanning("generate_notifications", None, None, None)]
            /\ outcome' = Outcome("generate_notifications", None, Today(now), None,
                                  "running", db.notifications)
    /\ UNCHANGED <<now, db, files, issued, destroyed>>

\* a generate_notifications that first deletes the notifications whose
\* condition no longer holds
GenerateNotificationsRetracting(w) ==
    /\ workers[w].pc = "idle"
    /\ workers' = [workers EXCEPT ![w] = Scanning("generate_notifications", None, None, None)]
    /\ LET calls == TenderAlerts(db, Today(now)) \o InvoiceAlerts(db, Today(now))
                        \o GuaranteeAlerts(db, Today(now))
           due == {calls[k].unique_key : k \in 1..Len(calls)}
       IN  db' = [db EXCEPT !.notifications = {x \in @ : x.unique_key \in due}]
    /\ outcome' = Outcome("generate_notifications", None, Today(now), None, "running",
                          db'.notifications)
    /\ UNCHANGED <<now, files, issued, destroyed>>

\* a call of generate_notifications begins (seed_demo_data, or a handler
\* seen from the engine's side).  Until a call has returned, outcome keeps
\* the day of the call and the notifications stored when it began
GenerateNotifications(w) ==
    /\ workers[w].pc = "idle"
    /\ workers' = [workers EXCEPT ![w] = Scanning("generate_notifications", None, None, None)]
    /\ outcome' = Outcome("generate_notifications", None, Today(now), None, "running",
                          db.notifications)
    /\ UNCHANGED <<now, db, files, issued, destroyed>>

\* an ensure_notification that replaces the row it finds: DELETE, then the INSERT
EnsureSelectReplacing(w) ==
    /\ workers[w].pc = "select"
    /\ workers[w].calls # <<>>
    /\ workers' = [workers EXCEPT ![w].pc = "insert"]
    /\ db' = [db EXCEPT !.notifications =
                 @ \ Existing(db, Head(workers[w].calls).unique_key)]
    /\ UNCHANGED <<now, files, issued, destroyed, outcome>>

\* an ensure_notification that rewrites the row it finds with the message of
\* the day and marks it unread
EnsureSelectRefreshing(w) ==
    /\ workers[w].pc = "select"
    /\ workers[w].calls # <<>>
    /\ LET n == Head(workers[w].calls)
           found == Existing(db, n.unique_key)
       IN  IF found # {}
           THEN /\ workers' = [workers EXCEPT ![w].calls = Tail(@)]
                /\ db' = [db EXCEPT !.notifications =
                             (@ \ found) \cup {[x EXCEPT !.message = n.message,
                                                         !.is_read = 0] : x \in found}]
           ELSE /\ workers' = [workers EXCEPT ![w].pc = "insert"]
                /\ UNCHANGED db
    /\ UNCHANGED <<now, files, issued, destroyed, outcome>>

\* ensure_notification, first statement: SELECT id FROM notifications WHERE unique_key = ?
EnsureSelect(w) ==
    /\ workers[w].pc = "select"
    /\ workers[w].calls # <<>>
    /\ workers' = IF Existing(db, Head(workers[w].calls).unique_key) # {}
                  THEN [workers EXCEPT ![w].calls = Tail(@)]
                  ELSE [workers EXCEPT ![w].pc = "insert"]
    /\ UNCHANGED <<now, db, files, issued, destroyed, outcome>>

\* ensure_notification, second statement: the INSERT; an exception leaves
\* generate_notifications and the handler and ends the request
EnsureInsert(w) ==
    /\ workers[w].pc = "insert"
    /\ LET r == InsertNotification(db, now, Head(workers[w].calls)) IN
       /\ db' = After(r)
       /\ IF r.result = "ok"
          THEN /\ workers' = [workers EXCEPT ![w].pc = "select", ![w].calls = Tail(@)]
               /\ UNCHANGED outcome
          ELSE /\ workers' = [workers EXCEPT ![w] = Idle]
               /\ outcome' = Raised(workers[w], r.result)
    /\ UNCHANGED <<now, files, issued, destroyed>>

\* the for loop of a rule is over: the SELECT of the next rule, or the return
\* of generate_notifications into the handler that called it
NextRule(w) ==
    /\ workers[w].pc = "select"
    /\ workers[w].calls = <<>>
    /\ LET wk == workers[w] IN
       IF wk.rule < 3
       THEN /\ workers' = [workers EXCEPT ![w].rule = @ + 1,
                                          ![w].calls = RuleAlerts(db, wk.rule + 1, wk.today)]
            /\ UNCHANGED outcome
       ELSE IF wk.op = "generate_notifications"
       THEN /\ workers' = [workers EXCEPT ![w] = Idle]
            /\ outcome' = Outcome(wk.op, None, wk.today, None, "ok", None)
       ELSE /\ workers' = [workers EXCEPT ![w].pc = IF wk.op = "get_summary"
                                                    THEN "outstanding" ELSE "list"]
            /\ UNCHANGED outcome
    /\ UNCHANGED <<now, db, files, issued, destroyed>>

\* POST /api/notifications/<id>/read
MarkNotificationRead(id) ==
    /\ LET r == mark_notification_read(db, id) IN
       /\ db' = r.db
       /\ outcome' = Outcome("mark_notification_read", None, id, None, r.result, None)
    /\ UNCHANGED <<now, files, workers, issued, destroyed>>

\* a fetch that reads the list without running the rule engine
GetNotificationsStale(w, user) ==
    /\ workers[w].pc = "idle"
    /\ workers' = [workers EXCEPT ![w] =
                      [Idle EXCEPT !.pc = "list", !.op = "list_notifications",
                                   !.user = user.id, !.arg = user.role]]
    /\ outcome' = Outcome("list_notifications", user.id, user.role, None, "running",
                          db.notifications)
    /\ UNCHANGED <<now, db, files, issued, destroyed>>

\* GET /api/notifications, server.notifications, for an authenticated user:
\* the rule engine is entered
GetNotifications(w, user) ==
    /\ workers[w].pc = "idle"
    /\ workers' = [workers EXCEPT ![w] =
                      Scanning("list_notifications", user.id, user.role, None)]
    /\ outcome' = Outcome("list_notifications", user.id, user.role, None, "running",
                          db.notifications)
    /\ UNCHANGED <<now, db, files, issued, destroyed>>

\* server.notifications after generate_notifications: the rows for the
\* caller's role are listed and answered
ListNotifications(w) ==
    /\ workers[w].pc = "list"
    /\ LET wk == workers[w] IN
       \E rows \in list_notifications(db, RowOf(db.users, wk.user).role) :
          outcome' = IF wk.op = "request"
                     THEN Outcome(wk.op, wk.user, wk.arg, wk.body, "200", None)
                     ELSE Outcome(wk.op, wk.user, wk.arg, None, "ok", rows)
    /\ workers' = [workers EXCEPT ![w] = Idle]
    /\ UNCHANGED <<now, db, files, issued, destroyed>>

\* GET /api/reports/summary, server.get_summary, for an authenticated user:
\* the rule engine is entered
GetSummary(w, user) ==
    /\ workers[w].pc = "idle"
    /\ workers' = [workers EXCEPT ![w] = Scanning("get_summary", user.id, None, None)]
    /\ UNCHANGED <<now, db, files, issued, destroyed, outcome>>

\* server.get_summary after generate_notifications: "finance" is
\* models.financial_pipeline(), which takes no user, checks no permission and
\* runs three SELECTs: SUM(amount) of the invoices not paid, SUM(amount_received)
\* and SUM(amount_invoiced) of the projects
FinancialPipeline(w) ==
    /\ workers[w].pc \in {"outstanding", "received", "invoiced"}
    /\ LET wk == workers[w] IN
       IF wk.pc = "outstanding"
       THEN /\ workers' = [workers EXCEPT ![w].pc = "received",
                              ![w].held = <<Sum({i \in db.invoices : i.status # "paid"}, "amount")>>]
            /\ UNCHANGED outcome
       ELSE IF wk.pc = "received"
       THEN /\ workers' = [workers EXCEPT ![w].pc = "invoiced",
                              ![w].held = Append(@, Sum(db.projects, "amount_received"))]
            /\ UNCHANGED outcome
       ELSE /\ workers' = [workers EXCEPT ![w] = Idle]
            /\ outcome' = Outcome(wk.op, wk.user, None, None, "ok",
                                  [outstanding_invoices |-> wk.held[1],
                                   amount_received |-> wk.held[2],
                                   amount_invoiced |-> Sum(db.projects, "amount_invoiced")])
    /\ UNCHANGED <<now, db, files, issued, destroyed>>

\* the administrator, who may write every record
Admin == RowOf(db.users, 1)

\* request bodies that bear the dates the rules look at
AlertTenderBodies == {[title_en |-> "T", tender_type |-> "RFQ",
                       submission_deadline |-> IsoDate(0)]}
AlertProjectBodies(d) == {[tender_id |-> t, name_en |-> "P", guarantee_end |-> IsoDate(2)] :
                             t \in FirstId(d.tenders)}

\* the statements of a call of generate_notifications, thread by thread
EngineSteps ==
    \/ \E w \in Workers : EnsureSelect(w)
    \/ \E w \in Workers : EnsureInsert(w)
    \/ \E w \in Workers : NextRule(w)

(* ------------------------- the capability table ------------------------ *)
\* the capability table, asked for every user and area, between test
\* set-ups and starts of the server; on the sample data two clients assign
\* the suppliers of project 1 at the same time
NextPermission ==
    \/ \E role \in {"auditor", "viewer", "finance"} : CreateUser("new", Text(<<97>>), 1, role)
    \/ \E u \in db.users : \E area \in Areas \cup {"users"} : CheckPermission(u, area)
    \/ \E w \in Free : \E u \in {x \in db.users : x.role \in {"admin", "viewer"}} :
          \E ids \in SupplierIdLists : AssignSuppliers(w, u, 1, ids)
    \/ \E w \in Workers : InsertSupplierLinks(w)
    \/ CollectGarbage
    \/ SetUp
    \/ RunServer

SpecPermission == Init /\ [][NextPermission]_vars

(* ------------------------- the mutating helpers ------------------------ *)
\* the records are those the start of the server or the set-up of the tests
\* left
Pristine == Stored(db) \in {Stored(StartDb), Stored(InitDb)}

\* the eleven mutating helpers, called by every user.  The ten helpers of one
\* statement are called on the records as the start left them, with or
\* without the write lock held: the first row of a table is changed and
\* deleted, children are given to the first row and to an id never given out.
\* The suppliers of project 1 are assigned at any time, by two clients at
\* once as well
NextAccess ==
    \/ /\ Pristine
       /\ \/ \E u \in db.users : \E data \in TenderBodies : CreateTender(u, data)
          \/ \E u \in db.users : \E data \in TenderChanges : UpdateTender(u, 1, data)
          \/ \E u \in db.users : DeleteTender(u, 1)
          \/ \E u \in db.users : \E data \in {[name_en |-> "S"]} : CreateSupplier(u, data)
          \/ \E u \in db.users : \E data \in SupplierChanges : UpdateSupplier(u, 1, data)
          \/ \E u \in db.users : DeleteSupplier(u, 1)
          \/ \E u \in db.users : \E data \in ProjectBodies(db) : CreateProject(u, data)
          \/ \E u \in db.users : \E data \in ProjectChanges : UpdateProject(u, 1, data)
          \/ \E u \in db.users : \E id \in SomeIds(db.seq.projects) :
                \E data \in InvoiceBodies : AddInvoice(u, id, data)
          \/ \E u \in db.users : \E data \in InvoiceChanges : UpdateInvoice(u, 1, data)
    \/ \E w \in Free : \E u \in db.users : \E ids \in SupplierIdLists :
          AssignSuppliers(w, u, 1, ids)
    \/ \E w \in Workers : InsertSupplierLinks(w)
    \/ CollectGarbage

SpecAccess == Init /\ [][NextAccess]_vars

\* attachments uploaded by a user whose role has the tenders area and by one
\* whose role has not, to tenders that the administrator keeps
NextUpload ==
    \/ \E data \in AlertTenderBodies : CreateTender(Admin, data)
    \/ \E id \in FirstId(db.tenders) : DeleteTender(Admin, id)
    \/ \E w \in Free : \E u \in {x \in db.users : x.role \in {"procurement", "viewer"}} :
          \E id \in SomeIds(db.seq.tenders) :
          \E filename \in Filenames : UploadAttachment(w, u, id, filename)
    \/ \E w \in Workers : InsertAttachment(w)
    \/ CollectGarbage

SpecUpload == Init /\ [][NextUpload]_vars

\* a user whose role has the finance area and one whose role has not
Readers == {x \in db.users : x.role \in {"finance", "viewer"}}

\* records written by the administrator, financial records read by both
\* readers
NextReads ==
    \/ \E data \in AlertTenderBodies : CreateTender(Admin, data)
    \/ \E data \in ProjectBodies(db) : CreateProject(Admin, data)
    \/ \E id \in FirstId(db.projects) : \E data \in InvoiceBodies : AddInvoice(Admin, id, data)
    \/ \E id \in FirstId(db.invoices) : \E data \in {[status |-> "paid"]} :
          UpdateInvoice(Admin, id, data)
    \/ \E w \in Free : \E u \in Readers : \E id \in SomeIds(db.seq.projects) :
          GetProject(w, u, id)
    \/ \E w \in Workers : GetProjectSuppliers(w)
    \/ \E w \in Workers : GetProjectInvoices(w)
    \/ \E w \in Free : \E u \in Readers : GetSummary(w, u)
    \/ EngineSteps
    \/ \E w \in Workers : FinancialPipeline(w)
    \/ CollectGarbage

SpecReads == Init /\ [][NextReads]_vars

(* -------------------- the rule engine between writes ------------------- *)
\* records written and days passing while a thread runs the rule engine
NextAlerts ==
    \/ NextDay
    \/ \E w \in Free : GenerateNotifications(w)
    \/ EngineSteps
    \/ \E id \in NewestId(db.notifications, db.seq.notifications) : MarkNotificationRead(id)
    \/ /\ Created(db) = 0
       /\ \E data \in AlertTenderBodies : CreateTender(Admin, data)
    \/ \E id \in NewestId(db.tenders, db.seq.tenders) : \E data \in {[status |-> "awarded"]} :
          UpdateTender(Admin, id, data)
    \/ \E id \in FirstId(db.invoices) : \E data \in {[status |-> "paid"]} :
          UpdateInvoice(Admin, id, data)

SpecAlerts == Init /\ [][NextAlerts]_vars

\* two threads run the rule engine at the same time while tenders are
\* created and notifications are read; the collector frees the connection of the
\* thread whose INSERT was refused
NextWorkers ==
    \/ NextDay
    \/ \E w \in Free : GenerateNotifications(w)
    \/ EngineSteps
    \/ \E id \in NewestId(db.notifications, db.seq.notifications) : MarkNotificationRead(id)
    \/ \E data \in AlertTenderBodies : CreateTender(Admin, data)
    \/ CollectGarbage

SpecWorkers == Init /\ [][NextWorkers]_vars
(* --------------------- the three rules, record by record --------------- *)
\* request bodies on both sides of each rule: a deadline today and one six days
\* ahead, a status outside the rule, a date that does not parse
RuleTenderBodies ==
    {[title_en |-> "T", tender_type |-> "RFQ", status |-> "submitted", submission_deadline |-> IsoDate(0)],
     [title_en |-> "T", tender_type |-> "RFQ", status |-> "submitted",
      submission_deadline |-> IsoDate(TENDER_SOON_DAYS + 1)],
     [title_en |-> "T", tender_type |-> "RFQ", status |-> "awarded", submission_deadline |-> IsoDate(0)],
     [title_en |-> "T", tender_type |-> "RFQ", status |-> "submitted", submission_deadline |-> BadDate]}
RuleProjectBodies(d) ==
    {[tender_id |-> t, name_en |-> "P", guarantee_end |-> g] :
        t \in FirstId(d.tenders), g \in {IsoDate(0), IsoDate(GUARANTEE_SOON_DAYS + 1), BadDate}}
RuleInvoiceBodies ==
    {[amount |-> Number(100), due_date |-> IsoDate(0)],
     [amount |-> Number(100), due_date |-> IsoDate(1)],
     [amount |-> Number(100), due_date |-> IsoDate(0), status |-> "paid"],
     [amount |-> Number(100), due_date |-> BadDate]}

\* records are created, days pass, the rule engine runs
NextRules ==
    \/ NextDay
    \/ \E w \in Free : GenerateNotifications(w)
    \/ EngineSteps
    \/ \E data \in RuleTenderBodies : CreateTender(Admin, data)
    \/ \E data \in RuleProjectBodies(db) : CreateProject(Admin, data)
    \/ \E id \in FirstId(db.projects) : \E data \in RuleInvoiceBodies : AddInvoice(Admin, id, data)
    \/ CollectGarbage

SpecRules == Init /\ [][NextRules]_vars

(* ------------------ alerts whose condition stops holding --------------- *)
\* a guarantee_end moved past every window
StaleProjectChanges == {[guarantee_end |-> IsoDate(MaxDay + GUARANTEE_SOON_DAYS + 1)]}

\* as NextAlerts, and a project's guarantee may be moved out of the window
NextStale ==
    \/ NextAlerts
    \/ \E id \in FirstId(db.projects) : \E data \in StaleProjectChanges :
          UpdateProject(Admin, id, data)

SpecStale == Init /\ [][NextStale]_vars

(* --------------------------- authentication ---------------------------- *)
\* verify_password(q, hash_password(p)), hash_password having drawn `salt`
VerifyPassword(p, q, salt) ==
    /\ \E stored \in {hash_password(p, salt)} :
          \E r \in {IF stored.result # "ok" THEN stored
                    ELSE verify_password(q, stored.value)} :
             outcome' = Outcome("verify_password", None, q, [password |-> p, salt |-> salt],
                                r.result, r.value)
    /\ UNCHANGED <<now, db, files, workers, issued, destroyed>>

\* auth.authenticate(username, password)
Authenticate(username, password) ==
    /\ \E r \in {authenticate(db, username, password)} :
          outcome' = Outcome("authenticate", None, username, password, r.result, r.value)
    /\ UNCHANGED <<now, db, files, workers, issued, destroyed>>

\* `not value` for a value of a JSON body: None, "" and 0 are false
Falsy(value) == value = Null \/ value = Text(<<>>) \/ value = Number(0)

\* POST /api/login, server.login, as far as authenticate: 400 without a
\* username or a password, 500 when authenticate raises, 401 when it
\* returns None
Login(w, username, password) ==
    /\ workers[w].pc = "idle"
    /\ \E r \in {authenticate(db, username, password)} :
       IF username = "" \/ Falsy(password) \/ r.result # "ok" \/ r.value = {}
       THEN /\ outcome' = Outcome("login", None, username, password,
                                  IF username = "" \/ Falsy(password) THEN "400"
                                  ELSE IF r.result # "ok" THEN "500"
                                  ELSE "401",
                                  {})
            /\ UNCHANGED workers
       ELSE /\ workers' = [workers EXCEPT ![w] =
                              [Idle EXCEPT !.pc = "session", !.op = "login",
                                           !.user = (CHOOSE u \in r.value : TRUE).id,
                                           !.arg = username, !.body = password,
                                           !.held = r.value]]
            /\ UNCHANGED outcome
    /\ UNCHANGED <<now, db, files, issued, destroyed>>

\* server.login after authenticate: auth.create_session(user["id"]), then
\* 200 with the cookie and the user
LoginSession(w) ==
    /\ workers[w].pc = "session"
    /\ Cardinality(issued) < MaxSessions
    /\ LET wk == workers[w]
           token == token_hex(issued)
           r == create_session(db, now, token, wk.user)
       IN  /\ db' = After(r)
           /\ issued' = IF r.result = "ok"
                        THEN issued \cup {[token |-> token, user_id |-> wk.user, at |-> now]}
                        ELSE issued
           /\ outcome' = IF r.result = "ok"
                         THEN Outcome(wk.op, wk.user, wk.arg, wk.body, "200", wk.held)
                         ELSE Outcome(wk.op, wk.user, wk.arg, wk.body, "500", {})
    /\ workers' = [workers EXCEPT ![w] = Idle]
    /\ UNCHANGED <<now, files, destroyed>>

\* the names that are tried: a default user, a created user, a name nobody
\* has, no name
AuthUsernames == {"admin", "new", "ghost", ""}

\* the passwords that are tried next to the short ones: a lone surrogate, a
\* JSON number, the long password and the str of its digest
OddPasswords == {Text(<<55296>>), Number(123), LongPassword, DigestPassword}

\* the passwords a login is tried with: none, "a", a lone surrogate, a JSON
\* number, and the administrator's, alone and with a NUL appended
AuthPasswords ==
    {Text(<<>>), Text(<<97>>), Text(<<55296>>), Number(123),
     DefaultPasswords.admin, Text(DefaultPasswords.admin[2] \o <<0>>)}

\* every password hashed with every salt, every password verified against it
NextPasswords ==
    \E p \in Passwords \cup OddPasswords : \E q \in Passwords \cup OddPasswords :
        \E salt \in Salts : VerifyPassword(p, q, salt)

SpecPasswords == Init /\ [][NextPasswords]_vars

\* users are created between set-ups, and names and passwords are tried
NextAuth ==
    \/ \E p \in {Text(<<97>>), Text(<<55296>>)} : CreateUser("new", p, 1, "finance")
    \/ \E u \in AuthUsernames \ {""} : \E p \in AuthPasswords : Authenticate(u, p)
    \/ \E w \in Free : \E u \in AuthUsernames : \E p \in AuthPasswords : Login(w, u, p)
    \/ \E w \in Workers : LoginSession(w)
    \/ SetUp

SpecAuth == Init /\ [][NextAuth]_vars

(* ------------------------- reading notifications ----------------------- *)
\* records are created, days pass, the procurement user and the
\* administrator read their notifications
NextList ==
    \/ NextDay
    \/ \E data \in {x \in RuleTenderBodies :
                         x.status = "submitted" /\ x.submission_deadline # BadDate} :
          CreateTender(Admin, data)
    \/ \E data \in AlertProjectBodies(db) : CreateProject(Admin, data)
    \/ \E w \in Free : \E u \in {x \in db.users : x.role \in {"procurement", "admin"}} :
          GetNotifications(w, u)
    \/ EngineSteps
    \/ \E w \in Workers : ListNotifications(w)

SpecList == Init /\ [][NextList]_vars
(* ------------------- marking a notification as read -------------------- *)
\* sys.int_info.default_max_str_digits: int() refuses a str of more digits
INT_MAX_STR_DIGITS == 4300

\* the digits of 2^63 - 1, the largest INTEGER that sqlite3 binds
MaxSqliteInteger ==
    <<57, 50, 50, 51, 51, 55, 50, 48, 51, 54, 56, 53, 52, 55, 55, 53, 56, 48, 55>>

\* a str of decimal digits without its leading zeros
Significant(digits) ==
    IF \A i \in 1..Len(digits) : digits[i] = 48 THEN <<48>>
    ELSE SubSeq(digits, Min({i \in 1..Len(digits) : digits[i] # 48}), Len(digits))

\* does the integer fit the signed 64-bit INTEGER that sqlite3 binds
FitsSqliteInteger(digits) ==
    LET sig == Significant(digits)
        top == MaxSqliteInteger
    IN  \/ Len(sig) < Len(top)
        \/ /\ Len(sig) = Len(top)
           /\ ~\E i \in 1..Len(top) : sig[i] > top[i] /\ \A j \in 1..(i - 1) : sig[j] = top[j]

\* POST /api/notifications/<id>/read, the digits of the path as the route's
\* \d+ takes them: models.mark_notification_read(int(...)).  int() raises
\* ValueError for more than INT_MAX_STR_DIGITS digits, sqlite3 raises
\* OverflowError for an integer it cannot bind, else the UPDATE runs; an
\* integer of more than nine digits is the id of no row
MarkNotificationReadInt(digits) ==
    /\ LET RECURSIVE Value(_)
           Value(text) == IF text = <<>> THEN 0
                          ELSE 10 * Value(SubSeq(text, 1, Len(text) - 1)) + text[Len(text)] - 48
           sig == Significant(digits)
           r == IF Len(digits) > INT_MAX_STR_DIGITS THEN Ret(db, "ValueError", None)
                ELSE IF ~FitsSqliteInteger(digits) THEN Ret(db, "OverflowError", None)
                ELSE mark_notification_read(db, IF Len(sig) <= 9 THEN Value(sig) ELSE None)
       IN  /\ db' = r.db
           /\ outcome' = Outcome("mark_notification_read", None, digits, None, r.result, None)
    /\ UNCHANGED <<now, files, workers, issued, destroyed>>

\* ids of stored rows, the first id not yet given, 2^63 - 1, 2^63 and an
\* integer of one digit more than int() converts
NotificationIdInputs ==
    {<<48 + i>> : i \in {1, MaxRows + 2}}
        \cup {MaxSqliteInteger, [MaxSqliteInteger EXCEPT ![Len(MaxSqliteInteger)] = 56],
              [i \in 1..(INT_MAX_STR_DIGITS + 1) |-> 49]}

NextMarks ==
    \/ NextDay
    \/ \E w \in Free : GenerateNotifications(w)
    \/ EngineSteps
    \/ \E data \in AlertTenderBodies : CreateTender(Admin, data)
    \/ \E words \in NotificationIdInputs : MarkNotificationReadInt(words)

SpecMarks == Init /\ [][NextMarks]_vars

(* ------------------ every rule and every reader at work ---------------- *)
\* the server is started, on a new database and on the one it left; tenders,
\* projects and invoices are created, days pass, every user reads their
\* notifications
NextShapes ==
    \/ NextList
    \/ \E id \in FirstId(db.projects) : \E data \in InvoiceBodies : AddInvoice(Admin, id, data)
    \/ RunServer

SpecShapes == Init /\ [][NextShapes]_vars

(* -------------- sessions next to the rest of the program --------------- *)
\* the session operations, and around them the start of the server, a login
\* attempt, one tender written and the rule engine
NextSessionFrame ==
    \/ Tick
    \/ CreateSession(1)
    \/ \E w \in Free : \E t \in Tokens : ResolveStart(w, t)
    \/ \E w \in Workers : ResolveFinish(w)
    \/ \E t \in Tokens : DestroySession(t)
    \/ Authenticate("admin", DefaultPasswords.admin)
    \/ /\ db.tenders = {}
       /\ \E data \in AlertTenderBodies : CreateTender(Admin, data)
    \/ /\ db.notifications = {}
       /\ \E w \in Free : GenerateNotifications(w)
    \/ EngineSteps
    \/ RunServer

SpecSessionFrame == Init /\ [][NextSessionFrame]_vars

(* ----------------------- requests to the API --------------------------- *)
\* "session"
SessionKey == <<115, 101, 115, 115, 105, 111, 110>>

\* the characters http.cookies takes in a cookie name (_LegalChars): letters,
\* digits and !#$%&'*+-.^_`|~:
LegalChars ==
    (97..122) \cup (65..90) \cup (48..57)
        \cup {33, 35, 36, 37, 38, 39, 42, 43, 45, 46, 94, 95, 96, 124, 126, 58}

\* Morsel._reserved: expires, path, comment, domain, max-age, secure,
\* httponly, version, samesite
ReservedKeys ==
    {<<101, 120, 112, 105, 114, 101, 115>>, <<112, 97, 116, 104>>,
     <<99, 111, 109, 109, 101, 110, 116>>, <<100, 111, 109, 97, 105, 110>>,
     <<109, 97, 120, 45, 97, 103, 101>>, <<115, 101, 99, 117, 114, 101>>,
     <<104, 116, 116, 112, 111, 110, 108, 121>>, <<118, 101, 114, 115, 105, 111, 110>>,
     <<115, 97, 109, 101, 115, 105, 116, 101>>}

\* str.lower() of an ASCII str
Lower(chars) == [i \in 1..Len(chars) |-> IF chars[i] \in 65..90 THEN chars[i] + 32 ELSE chars[i]]

\* http.cookies._unquote: a value in double quotes loses them, and inside
\* them \ooo (octal, first digit 0..3) is the character of that code and any
\* other \c (c no newline) is c
Unquote(value) ==
    LET inner == SubSeq(value, 2, Len(value) - 1)
        Octal(j) == /\ j + 3 <= Len(inner)
                    /\ inner[j] = 92
                    /\ inner[j + 1] \in 48..51
                    /\ inner[j + 2] \in 48..55
                    /\ inner[j + 3] \in 48..55
        Escape(k) == k + 1 <= Len(inner) /\ inner[k] = 92 /\ inner[k + 1] # 10
        RECURSIVE Scan(_)
        \* from position i, with o the octal escapes and q the escapes ahead
        Cut(i, o, q) ==
            IF o = {} /\ q = {} THEN SubSeq(inner, i, Len(inner))
            ELSE IF q # {} /\ (o = {} \/ Min(q) < Min(o))
            THEN SubSeq(inner, i, Min(q) - 1) \o <<inner[Min(q) + 1]>> \o Scan(Min(q) + 2)
            ELSE SubSeq(inner, i, Min(o) - 1)
                     \o <<64 * (inner[Min(o) + 1] - 48) + 8 * (inner[Min(o) + 2] - 48)
                             + inner[Min(o) + 3] - 48>>
                     \o Scan(Min(o) + 4)
        Scan(i) ==
            IF i > Len(inner) THEN <<>>
            ELSE Cut(i, {j \in i..Len(inner) : Octal(j)}, {k \in i..Len(inner) : Escape(k)})
    IN  IF Len(value) < 2 \/ value[1] # 34 \/ value[Len(value)] # 34 THEN value
        ELSE Scan(1)

\* SimpleCookie.load(header), first half: the loop of __parse_string over
\* the matches of _CookiePattern (re.ASCII), as the items it collects and
\* whether the string was taken as valid.  An item is a key=value pair with
\* its unquoted value or an attribute of the pair before it; the value of an
\* attribute is read by nobody and is left out
CookieItems(header) ==
    LET n == Len(header)
        Space == {9, 10, 11, 12, 13, 32}
        Word == (48..57) \cup (65..90) \cup (97..122) \cup {95}
        \* _LegalKeyChars: \w and !#%&'~`><@,:/$*+-.^|)(?}{=
        KeyChars == Word \cup {33, 35, 37, 38, 39, 126, 96, 62, 60, 64, 44, 58, 47, 36, 42, 43,
                               45, 46, 94, 124, 41, 40, 63, 125, 123, 61}
        \* _LegalValueChars: these and []
        ValueChars == KeyChars \cup {91, 93}
        \* the first position from i on that holds no character of `set`
        Past(set, i) == Min({j \in i..(n + 1) : j = n + 1 \/ header[j] \notin set})
        In(set, from, to) == to <= n /\ \A j \in from..to : header[j] \in set
        \* \s*(\s+|;|$) from position x: the position after it, 0 without a match
        EndAt(x, y) == IF y > n THEN y
                       ELSE IF header[y] = 59 THEN y + 1
                       ELSE IF y > x THEN y
                       ELSE 0
        Ending(x) == EndAt(x, Past(Space, x))
        RECURSIVE Closing(_)
        \* (?:[^\\"]|\\.)* from position j: where it stops
        Closing(j) == IF j > n \/ header[j] = 34 THEN j
                      ELSE IF header[j] # 92 THEN Closing(j + 1)
                      ELSE IF j < n /\ header[j + 1] # 10 THEN Closing(j + 2)
                      ELSE j
        \* a doublequoted string from position b: the position after it, or 0
        CloseAt(c) == IF c <= n /\ header[c] = 34 THEN c + 1 ELSE 0
        Quoted(b) == IF b > n \/ header[b] # 34 THEN 0 ELSE CloseAt(Closing(b + 1))
        \* \w{3},\s[\w\d\s-]{m}\s[\d:]{8}\sGMT from position b
        Expires(b, m) == /\ b + 17 + m <= n
                         /\ In(Word, b, b + 2)
                         /\ header[b + 3] = 44
                         /\ header[b + 4] \in Space
                         /\ In(Word \cup Space \cup {45}, b + 5, b + 4 + m)
                         /\ header[b + 5 + m] \in Space
                         /\ In((48..57) \cup {58}, b + 6 + m, b + 13 + m)
                         /\ header[b + 14 + m] \in Space
                         /\ SubSeq(header, b + 15 + m, b + 17 + m) = <<71, 77, 84>>
        NoMatch == [ok |-> FALSE, key |-> <<>>, given |-> FALSE, val |-> <<>>, end |-> 0]
        Found(p, e, given, val, end) ==
            [ok |-> TRUE, key |-> SubSeq(header, p, e), given |-> given, val |-> val, end |-> end]
        \* the rest of the pattern after the key header[p..e], with a the
        \* position after the spaces behind the key, b the position where
        \* the value begins (0 without the equal sign), q, dates and v where
        \* the alternatives of the value end: the group with the value in the
        \* order of its alternatives, then without the group
        TryValue(p, e, a, b, q, dates, v) ==
            IF b # 0 /\ q # 0 /\ Ending(q) # 0
            THEN Found(p, e, TRUE, SubSeq(header, b, q - 1), Ending(q))
            ELSE IF dates # {}
            THEN Found(p, e, TRUE, SubSeq(header, b, b + 17 + Max(dates)),
                       Ending(b + 18 + Max(dates)))
            ELSE IF b # 0 /\ Ending(v) # 0
            THEN Found(p, e, TRUE, SubSeq(header, b, v - 1), Ending(v))
            ELSE IF b > a + 1
            THEN Found(p, e, TRUE, <<>>, b)
            ELSE IF Ending(e + 1) # 0
            THEN Found(p, e, FALSE, <<>>, Ending(e + 1))
            ELSE NoMatch
        TryEqual(p, e, a, b) ==
            TryValue(p, e, a, b,
                     IF b = 0 THEN 0 ELSE Quoted(b),
                     IF b = 0 THEN {}
                     ELSE {m \in 9..11 : Expires(b, m) /\ Ending(b + 18 + m) # 0},
                     IF b = 0 THEN 0 ELSE Past(ValueChars, b))
        TryKey(p, e, a) ==
            TryEqual(p, e, a, IF a <= n /\ header[a] = 61 THEN Past(Space, a + 1) ELSE 0)
        Try(p, e) == TryKey(p, e, Past(Space, e + 1))
        \* patt.match(str, i): the key is the shortest that lets the rest match
        Shortest(p, ends) == IF ends = {} THEN NoMatch ELSE Try(p, Min(ends))
        MatchFrom(p) == Shortest(p, {e \in p..(Past(KeyChars, p) - 1) : Try(p, e).ok})
        Match(i) == MatchFrom(Past(Space, i))
        Item(type, key, val) == [type |-> type, key |-> key, value |-> val]
        \* Morsel._flags: secure, httponly
        Flags == {<<115, 101, 99, 117, 114, 101>>, <<104, 116, 116, 112, 111, 110, 108, 121>>}
        RECURSIVE Loop(_, _, _)
        \* the body of the while loop for the match m, with parsed_items and
        \* morsel_seen
        Take(m, items, seen) ==
            IF ~m.ok THEN [valid |-> TRUE, items |-> items]
            ELSE IF m.key[1] = 36
            THEN Loop(m.end,
                      IF seen THEN Append(items, Item("attribute", Tail(m.key), <<>>))
                      ELSE items,
                      seen)
            ELSE IF Lower(m.key) \in ReservedKeys
            THEN IF ~seen \/ (~m.given /\ Lower(m.key) \notin Flags)
                 THEN [valid |-> FALSE, items |-> <<>>]
                 ELSE Loop(m.end, Append(items, Item("attribute", m.key, <<>>)), seen)
            ELSE IF m.given
            THEN Loop(m.end, Append(items, Item("keyvalue", m.key, Unquote(m.val))), TRUE)
            ELSE [valid |-> FALSE, items |-> <<>>]
        \* the while loop from position i
        Loop(i, items, seen) ==
            IF i > n THEN [valid |-> TRUE, items |-> items]
            ELSE Take(Match(i), items, seen)
    IN  Loop(1, <<>>, FALSE)

\* the text of a token in a cookie: the hexadecimal digits of
\* secrets.token_hex, cut down to one digit
TokenText(t) == <<48 + t>>

\* "session=<token>"
SessionPair(t) == SessionKey \o <<61>> \o TokenText(t)

\* the Cookie headers tried, <<>> for a request without the header:
\*   a,b=1            session=<t>, t a token or not      a,b=1; session=1
\*   session=1; session=2 and the other way round        path=/; session=1
\*   session=1; path=/      session=1; $x=1              $x=1; session=1
\*   session=1; a b=1       session=1; [b=1              session="1"
\*   session=
CookieHeaders ==
    {<<>>, <<97, 44, 98, 61, 49>>}
        \cup {SessionPair(t) : t \in Tokens \cup {UnknownToken}}
        \cup {<<97, 44, 98, 61, 49, 59, 32>> \o SessionPair(1),
              SessionPair(1) \o <<59, 32>> \o SessionPair(2),
              SessionPair(2) \o <<59, 32>> \o SessionPair(1),
              <<112, 97, 116, 104, 61, 47, 59, 32>> \o SessionPair(1),
              SessionPair(1) \o <<59, 32, 112, 97, 116, 104, 61, 47>>,
              SessionPair(1) \o <<59, 32, 36, 120, 61, 49>>,
              <<36, 120, 61, 49, 59, 32>> \o SessionPair(1),
              SessionPair(1) \o <<59, 32, 97, 32, 98, 61, 49>>,
              SessionPair(1) \o <<59, 32, 91, 98, 61, 49>>,
              SessionKey \o <<61, 34>> \o TokenText(1) \o <<34>>,
              SessionKey \o <<61>>}

\* what the loop makes of each header that is tried, computed once
LoadedHeaders == [header \in CookieHeaders |-> CookieItems(header)]

Loaded(header) == Get(LoadedHeaders, header, CookieItems(header))

\* server._parse_cookies: {} without the header; else SimpleCookie.load,
\* which applies the items of a valid string in their order: CookieError for
\* an attribute that is not reserved and for a key with a character outside
\* LegalChars; of two pairs with one key the later one stays
parse_cookies(header) ==
    LET Set(items) ==
            LET refused == \E k \in DOMAIN items :
                              IF items[k].type = "attribute"
                              THEN Lower(items[k].key) \notin ReservedKeys
                              ELSE \E i \in DOMAIN items[k].key :
                                      items[k].key[i] \notin LegalChars
                pairs == {k \in DOMAIN items : items[k].type = "keyvalue"}
                kept == {k \in pairs : \A j \in pairs : items[j].key = items[k].key => j <= k}
            IN  IF refused THEN [result |-> "CookieError", cookies |-> {}]
                ELSE [result |-> "ok",
                      cookies |-> {<<items[k].key, items[k].value>> : k \in kept}]
    IN  IF header = <<>> THEN [result |-> "ok", cookies |-> {}]
        ELSE Set(Loaded(header).items)

\* cookies.get("session"): the empty set for None
SessionCookie(cookies) == {c[2] : c \in {x \in cookies : x[1] = SessionKey}}

\* the status the handler of a route answers with when it returns, and the
\* status handle_api answers with when it raises
StatusOf(route, result) ==
    IF result = "PermissionError" THEN "403"
    ELSE IF result # "ok" THEN "500"
    ELSE CASE route = "POST /api/tenders" -> "201"
           [] route = "DELETE /api/tenders/1" -> "204"
           [] route = "GET /api/notifications" -> "200"

\* TenderPortalRequestHandler.handle_api for a request with this Cookie
\* header to a protected route, as far as the first statement of
\* require_user: the cookies are parsed (500 on CookieError), 401 without a
\* session cookie, with an empty one or without a row for its token
Request(w, header, route) ==
    /\ workers[w].pc = "idle"
    /\ route = "POST /api/tenders" => Created(db) < MaxPosted
    /\ \E parsed \in {parse_cookies(header)} :
       LET token == SessionCookie(parsed.cookies)
           found == {s \in db.sessions : TokenText(s.token) \in token}
       IN  IF parsed.result # "ok" \/ token = {} \/ token = {<<>>} \/ found = {}
           THEN /\ outcome' = Outcome("request", None, header, route,
                                      IF parsed.result # "ok" THEN "500" ELSE "401", None)
                /\ UNCHANGED workers
           ELSE /\ workers' = [workers EXCEPT ![w] =
                                  [Idle EXCEPT !.pc = "resolve", !.op = "request",
                                               !.arg = header, !.body = route,
                                               !.held = CHOOSE s \in found : TRUE]]
                /\ UNCHANGED outcome
    /\ UNCHANGED <<now, db, files, issued, destroyed>>

\* the handler of the route, run for the user require_user found: a tender
\* is created, tender 1 is deleted, or the rule engine is entered before the
\* notifications are listed
RequestHandler(w) ==
    /\ workers[w].pc = "handler"
    /\ LET wk == workers[w]
           user == RowOf(db.users, wk.user)
           r == IF wk.body = "POST /api/tenders"
                THEN create_tender(db, CHOOSE data \in AlertTenderBodies : TRUE, user)
                ELSE delete_tender(db, 1, user)
       IN  IF wk.body = "GET /api/notifications"
           THEN /\ workers' = [workers EXCEPT ![w] = Scanning(wk.op, wk.user, wk.arg, wk.body)]
                /\ UNCHANGED <<db, outcome>>
           ELSE /\ wk.body = "POST /api/tenders" => Created(db) < MaxPosted
                /\ db' = After(r)
                /\ workers' = [workers EXCEPT ![w] = Idle]
                /\ outcome' = Outcome(wk.op, wk.user, wk.arg, wk.body,
                                      StatusOf(wk.body, r.result), None)
    /\ UNCHANGED <<now, files, issued, destroyed>>

Routes == {"POST /api/tenders", "DELETE /api/tenders/1", "GET /api/notifications"}

\* users log in, time passes, requests arrive
NextRequests ==
    \/ NextDay
    \/ /\ now = 0
       /\ \E u \in LoginUsers : CreateSession(u)
    \/ /\ \A w \in Workers : workers[w].pc = "idle"
       /\ \E header \in CookieHeaders : Request(1, header, "DELETE /api/tenders/1")
    \/ \E w \in Free : \E route \in Routes : Request(w, SessionPair(1), route)
    \/ \E w \in Workers : ResolveFinish(w)
    \/ \E w \in Workers : RequestHandler(w)
    \/ EngineSteps
    \/ \E w \in Workers : ListNotifications(w)
    \/ CollectGarbage

SpecRequests == Init /\ [][NextRequests]_vars

(* ------------------------- reading the runs ---------------------------- *)
\* the step ends a call: a helper of one statement ran, or the last
\* statement of a handler that a thread was in
Answered ==
    \/ workers' = workers
    \/ \E w \in Workers : workers[w].pc # "idle" /\ workers'[w].pc = "idle"

\* the step ends a call `op` of the rule engine, or of a handler that ran
\* it, that no other call disturbed: no other call began or ended since that
\* call began (outcome still holds the day and the notifications of the
\* moment it began), no other thread is in a handler, and no connection
\* holds the write lock
RunEnds(op) ==
    /\ outcome.op = op
    /\ outcome.result = "running"
    /\ outcome'.op = op
    /\ outcome'.result # "running"
    /\ ~Held(db)
    /\ \E w \in Workers :
          /\ workers[w].pc # "idle"
          /\ workers'[w].pc = "idle"
          /\ \A v \in Workers \ {w} : workers[v].pc = "idle"

\* the calls the three rules make for the records of store d on day `today`
DueAlerts(d, today) ==
    LET calls == TenderAlerts(d, today) \o InvoiceAlerts(d, today)
                    \o GuaranteeAlerts(d, today)
    IN  {calls[k] : k \in 1..Len(calls)}

(* ---------------------- claims on the alert engine --------------------- *)
\* C1: in every reachable state, whatever the interleaving of request threads
\* running generate_notifications with mark_notification_read and record
\* creates, no two stored notifications have the same unique_key.
C1_UniqueKeyIsUnique ==
    \A x \in db.notifications : \A y \in db.notifications :
        x.unique_key = y.unique_key => x = y

\* two threads raced on one key: the INSERT of the second was refused, the row
\* of the first is stored, and a notification has been marked read
C1_Witness ==
    /\ outcome.op = "generate_notifications"
    /\ outcome.result = "IntegrityError"
    /\ db.notifications # {}
    /\ \E x \in db.notifications : x.is_read = 1

\* C2: a run of generate_notifications that no other call disturbs ends with a
\* notification stored for every key that is due; so a run that begins where
\* such a run ended, on the same day and with no record changed, finds every
\* due key stored, raises nothing, inserts no row and leaves the notification
\* store exactly as it found it.
C2_SecondRunChangesNothing ==
    [][RunEnds("generate_notifications") =>
          LET due == {n.unique_key : n \in DueAlerts(db, outcome.arg)}
              before == {x.unique_key : x \in outcome.value}
          IN  /\ outcome'.result = "ok"
              /\ due \subseteq {x.unique_key : x \in db'.notifications}
              /\ due \subseteq before => db'.notifications = outcome.value]_vars

\* a run that began and ended today, a day after the stored notifications
\* were written, with a guarantee alert due today: it inserted nothing
C2_Witness ==
    /\ outcome.op = "generate_notifications"
    /\ outcome.result = "ok"
    /\ outcome.arg = Today(now)
    /\ GuaranteeAlerts(db, Today(now)) # <<>>
    /\ \A n \in DueAlerts(db, Today(now)) : Existing(db, n.unique_key) # {}
    /\ \A x \in db.notifications : x.created_at < now

(* ------------------------- claims on sessions -------------------------- *)
\* what auth.get_user_by_session(token) returns when called in this state
\* with no statement of another thread in between
Resolve(token) == get_user_by_session(db, now, token).value

\* the stored session is past its expiry at time `clock`
SessionExpired(s, clock) == IsExpired(datetime_fromisoformat(s.expires_at), clock)

\* no session is stored for the token
Absent(d, token) == \A s \in d.sessions : s.token # token

\* the thread that ends a call of get_user_by_session in this step
Resolving(w) ==
    /\ workers[w].pc = "resolve"
    /\ workers[w].op = "get_user_by_session"
    /\ workers'[w].pc = "idle"

\* C3 as stated: a session issued at t0 and not destroyed resolves to its user
\* at every t < t0 + D and to None at every t >= t0 + D, t = t0 + D included.
C3_ExpiresAtDuration ==
    outcome.op = "get_user_by_session" =>
        \A h \in issued :
            (h.token = outcome.arg /\ h.token \notin destroyed) =>
                /\ (now < h.at + SESSION_DURATION_HOURS => outcome.value = h.user_id)
                /\ (now >= h.at + SESSION_DURATION_HOURS => outcome.value = None)

\* C3 amended: a session issued at t0 and not destroyed resolves to its user at
\* every t <= t0 + D (the instant t0 + D included) and to None at every t > t0 + D.
C3_ExpiresAfterDuration ==
    outcome.op = "get_user_by_session" =>
        \A h \in issued :
            (h.token = outcome.arg /\ h.token \notin destroyed) =>
                /\ (now <= h.at + SESSION_DURATION_HOURS => outcome.value = h.user_id)
                /\ (now > h.at + SESSION_DURATION_HOURS => outcome.value = None)

\* a resolve at the instant t0 + D exactly, which returned the user
C3_Witness ==
    /\ outcome.op = "get_user_by_session"
    /\ \E h \in issued :
        /\ h.token = outcome.arg
        /\ h.token \notin destroyed
        /\ now = h.at + SESSION_DURATION_HOURS
        /\ outcome.value = h.user_id

\* C4: a token (issued, or never issued) that resolves to None keeps resolving
\* to None: no step, under the non-decreasing clock, takes it back to
\* "resolves to a user"; a call that begins while the token resolves to None
\* finds no row or an expired one, and a call that read an expired row
\* returns None.
C4_NoneIsTerminal ==
    [][/\ \A t \in IssuedTokens(issued) \cup {UnknownToken} :
             Resolve(t) = None => get_user_by_session(db', now', t).value = None
       /\ \A w \in Workers :
             (workers[w].pc = "idle" /\ workers'[w].pc = "resolve"
                 /\ Resolve(workers'[w].arg) = None)
                 => SessionExpired(workers'[w].held, now)
       /\ \A w \in Workers :
             (Resolving(w) /\ SessionExpired(workers[w].held, now))
                 => outcome'.value = None
       /\ (workers' = workers /\ outcome'.op = "get_user_by_session")
             => outcome'.value = None /\ Resolve(outcome'.arg) = None]_vars

\* a resolve that returned None for a token that was issued, with the row gone
\* and a later session of the same user still active
C4_Witness ==
    /\ outcome.op = "get_user_by_session"
    /\ outcome.arg \in IssuedTokens(issued)
    /\ outcome.value = None
    /\ \A s \in db.sessions : s.token # outcome.arg
    /\ \E s \in db.sessions : Resolve(s.token) # None

\* C5: destroy_session(token) raises nothing; afterwards no row has the token
\* and the token resolves to None; with no such row before, the store is
\* unchanged; rows with other tokens are kept.
C5_DestroyIdempotent ==
    [][(Answered /\ outcome'.op = "destroy_session") =>
          LET t == outcome'.arg IN
          /\ outcome'.result = "ok"
          /\ \A s \in db'.sessions : s.token # t
          /\ get_user_by_session(db', now', t).value = None
          /\ ((\A s \in db.sessions : s.token # t) => db'.sessions = db.sessions)
          /\ \A s \in db.sessions : s.token # t => s \in db'.sessions
          /\ db'.sessions \subseteq db.sessions]_vars

\* a destroy of an issued token that left another session of the same user
C5_Witness ==
    /\ outcome.op = "destroy_session"
    /\ outcome.arg \in destroyed
    /\ \E h \in issued : \E s \in db.sessions :
          h.token = outcome.arg /\ s.user_id = h.user_id /\ s.token # h.token

\* C6: create_session adds exactly one row and keeps every other row: whatever
\* token resolved to a user before the call resolves to the same user after.
C6_CreateSessionFrame ==
    [][(Answered /\ outcome'.op = "create_session") =>
          /\ outcome'.result = "ok"
          /\ db.sessions \subseteq db'.sessions
          /\ Cardinality(db'.sessions) = Cardinality(db.sessions) + 1
          /\ \E s \in db'.sessions \ db.sessions :
                s.token = outcome'.value /\ s.user_id = outcome'.user
          /\ \A t \in Tokens :
                Resolve(t) # None =>
                    get_user_by_session(db', now', t).value = Resolve(t)]_vars

\* two sessions of one user, both resolving, right after the second was created
C6_Witness ==
    /\ outcome.op = "create_session"
    /\ \E s1 \in db.sessions : \E s2 \in db.sessions :
          /\ s1.token # s2.token
          /\ s1.user_id = s2.user_id
          /\ Resolve(s1.token) = s1.user_id
          /\ Resolve(s2.token) = s2.user_id

(* ---------------------- claims on access control ----------------------- *)
\* C7: check_permission(user, area) returns when area is in the capability set
\* of user.role (admin: all five areas; procurement: tenders, reports,
\* suppliers; project_manager: projects, reports, suppliers; finance: projects,
\* finance, reports; viewer: reports) and raises PermissionError otherwise; a
\* role outside the table has the empty set; the check changes no state.
C7_CheckPermission ==
    [][(Answered /\ outcome'.op = "check_permission") =>
          LET claimed == [ admin |-> {"tenders", "projects", "finance", "suppliers", "reports"},
                           procurement |-> {"tenders", "reports", "suppliers"},
                           project_manager |-> {"projects", "reports", "suppliers"},
                           finance |-> {"projects", "finance", "reports"},
                           viewer |-> {"reports"} ]
              role == RowOf(db.users, outcome'.user).role
              granted == IF role \in DOMAIN claimed THEN claimed[role] ELSE {}
          IN  /\ outcome'.result =
                    (IF outcome'.arg \in granted THEN "ok" ELSE "PermissionError")
              /\ <<now', db', files', workers', issued', destroyed'>>
                    = <<now, db, files, workers, issued, destroyed>>]_vars

\* a user whose role is not in the table was refused an area that exists
C7_Witness ==
    /\ outcome.op = "check_permission"
    /\ outcome.arg = "reports"
    /\ outcome.result = "PermissionError"
    /\ RowOf(db.users, outcome.user).role \notin DOMAIN ROLE_PERMISSIONS

\* the eleven mutating helpers
MutatingHelpers ==
    {"create_tender", "update_tender", "delete_tender",
     "create_supplier", "update_supplier", "delete_supplier",
     "create_project", "update_project", "assign_supplier_to_project",
     "add_invoice", "update_invoice"}

\* the area each of them is said to check
AreaOf(op) ==
    IF op \in {"create_tender", "update_tender", "delete_tender"} THEN "tenders"
    ELSE IF op \in {"create_supplier", "update_supplier", "delete_supplier"} THEN "suppliers"
    ELSE IF op \in {"create_project", "update_project", "assign_supplier_to_project"}
    THEN "projects"
    ELSE "finance"

\* the role of user `id` is said to have the area of `op`
HasArea(d, id, op) ==
    LET claimed == [ admin |-> {"tenders", "projects", "finance", "suppliers", "reports"},
                     procurement |-> {"tenders", "reports", "suppliers"},
                     project_manager |-> {"projects", "reports", "suppliers"},
                     finance |-> {"projects", "finance", "reports"},
                     viewer |-> {"reports"} ]
        role == RowOf(d.users, id).role
    IN  role \in DOMAIN claimed /\ AreaOf(op) \in claimed[role]

\* the write of the call that `o` records is in store `d2`, store `d` being
\* the one before the step that ended the call: the created row carries the
\* body's values under the returned id, the updated row carries them in the
\* body's columns and its old values elsewhere, the deleted row is gone, the
\* links of the project are the listed suppliers (the project has none when
\* the list is empty; a non-empty list is inserted by the call's last step,
\* next to what the store held then)
Written(d, d2, o) ==
    LET op == o.op
        arg == o.arg
        body == o.body
        table(e) == IF AreaOf(op) = "tenders" THEN e.tenders
                    ELSE IF AreaOf(op) = "suppliers" THEN e.suppliers
                    ELSE IF AreaOf(op) = "projects" THEN e.projects
                    ELSE e.invoices
        created == \E r \in table(d2) \ table(d) :
                      /\ r.id = o.value
                      /\ \A f \in DOMAIN body \cap DOMAIN r : r[f] = body[f]
        updated == \A r \in table(d) :
                      r.id = arg =>
                          \E r2 \in table(d2) :
                              /\ r2.id = arg
                              /\ \A f \in DOMAIN r :
                                    r2[f] = IF f \in DOMAIN body THEN body[f] ELSE r[f]
        deleted == arg \notin Ids(table(d2))
        listed == {body[i] : i \in DOMAIN body}
    IN  IF op \in {"create_tender", "create_supplier", "create_project"}
        THEN created
        ELSE IF op = "add_invoice"
        THEN created /\ RowOf(d2.invoices, o.value).project_id = arg
        ELSE IF op \in {"update_tender", "update_supplier", "update_project", "update_invoice"}
        THEN updated
        ELSE IF op \in {"delete_tender", "delete_supplier"}
        THEN deleted
        ELSE /\ list_project_suppliers(d2, arg)
                    = (IF listed = {} THEN {} ELSE list_project_suppliers(d, arg) \cup listed)
             /\ \A l \in d2.project_suppliers \ d.project_suppliers : l.project_id = arg
             /\ \A l \in d.project_suppliers \ d2.project_suppliers : l.project_id = arg

C9_AttachmentsAreGated ==
    [][(db'.attachments \ db.attachments # {}) =>
          "tenders" \in Get(ROLE_PERMISSIONS, RowOf(db.users, outcome'.user).role, {})]_vars

\* C10 as stated: a caller whose role lacks "finance" gets no invoice record
\* and no pipeline total from GET /api/projects/<id> or GET /api/reports/summary
\* (here: while an invoice is stored).
C10_FinanceReadsAreGated ==
    (/\ outcome.op \in {"get_project", "get_summary"}
     /\ db.invoices # {}
     /\ "finance" \notin Get(ROLE_PERMISSIONS, RowOf(db.users, outcome.user).role, {}))
        => outcome.result # "ok"

(* ------------------------ claims on the three rules -------------------- *)
\* C11: a run of generate_notifications that no other call disturbs and that
\* starts with no notification keyed
\* tender_close_<id> ends with exactly one, of level warning for procurement,
\* if and only if the tender's status is draft, in_preparation or submitted and
\* today <= deadline <= today + 5; otherwise it ends with none.
C11_TenderClosingRule ==
    [][RunEnds("generate_notifications") =>
          \A t \in db.tenders :
              LET key == <<"tender_close", t.id>>
                  today == outcome.arg
                  dl == t.submission_deadline
                  due == /\ t.status \in {"draft", "in_preparation", "submitted"}
                         /\ Len(dl) = 2
                         /\ dl[1] = "date"
                         /\ today <= dl[2]
                         /\ dl[2] <= today + 5
                  made == {x \in db'.notifications : x.unique_key = key}
              IN  (\A x \in outcome.value : x.unique_key # key) =>
                      IF due
                      THEN /\ Cardinality(made) = 1
                           /\ \A x \in made : x.level = "warning" /\ x.target_role = "procurement"
                      ELSE made = {}]_vars

\* after a run: a submitted tender closing in exactly five days has its alert,
\* an awarded tender closing within the window has none
C11_Witness ==
    /\ outcome.op = "generate_notifications"
    /\ outcome.result = "ok"
    /\ \E t \in db.tenders :
          /\ t.status = "submitted"
          /\ t.submission_deadline = IsoDate(Today(now) + 5)
          /\ Existing(db, <<"tender_close", t.id>>) # {}
    /\ \E t \in db.tenders :
          /\ t.status = "awarded"
          /\ t.submission_deadline = IsoDate(0)
          /\ Existing(db, <<"tender_close", t.id>>) = {}

\* C12: an undisturbed run that starts with no notification keyed
\* invoice_due_<id> ends with
\* exactly one, of level danger for finance, if and only if the invoice is not
\* paid and its due date is strictly before today; otherwise it ends with none.
C12_InvoiceOverdueRule ==
    [][RunEnds("generate_notifications") =>
          \A i \in db.invoices :
              LET key == <<"invoice_due", i.id>>
                  today == outcome.arg
                  dd == i.due_date
                  due == /\ i.status # "paid"
                         /\ Len(dd) = 2
                         /\ dd[1] = "date"
                         /\ dd[2] < today
                  made == {x \in db'.notifications : x.unique_key = key}
              IN  (\A x \in outcome.value : x.unique_key # key) =>
                      IF due
                      THEN /\ Cardinality(made) = 1
                           /\ \A x \in made : x.level = "danger" /\ x.target_role = "finance"
                      ELSE made = {}]_vars

\* after a run: an unpaid invoice due yesterday has its alert
C12_Witness ==
    /\ outcome.op = "generate_notifications"
    /\ outcome.result = "ok"
    /\ Today(now) = 1
    /\ \E i \in db.invoices :
          /\ i.status = "unpaid"
          /\ i.due_date = IsoDate(Today(now) - 1)
          /\ \E x \in Existing(db, <<"invoice_due", i.id>>) :
                x.level = "danger" /\ x.target_role = "finance"

\* C13: an undisturbed run that starts with no notification keyed
\* guarantee_due_<id> ends
\* with exactly one, of level info for project_manager, if and only if the
\* project's guarantee_end g is set and today <= g <= today + 10; otherwise it
\* ends with none.
C13_GuaranteeExpiringRule ==
    [][RunEnds("generate_notifications") =>
          \A p \in db.projects :
              LET key == <<"guarantee_due", p.id>>
                  today == outcome.arg
                  g == p.guarantee_end
                  due == /\ Len(g) = 2
                         /\ g[1] = "date"
                         /\ today <= g[2]
                         /\ g[2] <= today + 10
                  made == {x \in db'.notifications : x.unique_key = key}
              IN  (\A x \in outcome.value : x.unique_key # key) =>
                      IF due
                      THEN /\ Cardinality(made) = 1
                           /\ \A x \in made : x.level = "info"
                                              /\ x.target_role = "project_manager"
                      ELSE made = {}]_vars

\* after a run: a project whose guarantee ends in exactly ten days has its alert
C13_Witness ==
    /\ outcome.op = "generate_notifications"
    /\ outcome.result = "ok"
    /\ \E p \in db.projects :
          /\ p.guarantee_end = IsoDate(Today(now) + 10)
          /\ \E x \in Existing(db, <<"guarantee_due", p.id>>) :
                x.level = "info" /\ x.target_role = "project_manager"

\* C14: no step removes a notification: an overdue invoice is paid, a tender is
\* awarded or its deadline passes, a guarantee_end is moved out of the window,
\* the engine runs again, and every unique_key stored before is stored after.
C14_NeverRetracted ==
    [][{x.unique_key : x \in db.notifications}
          \subseteq {x.unique_key : x \in db'.notifications}]_vars

\* after a run: the alert of an invoice that has since been paid, and the alert
\* of a tender whose deadline has passed, are still stored
C14_Witness ==
    /\ outcome.op = "generate_notifications"
    /\ outcome.result = "ok"
    /\ \E i \in db.invoices :
          i.status = "paid" /\ Existing(db, <<"invoice_due", i.id>>) # {}
    /\ \E t \in db.tenders :
          /\ t.submission_deadline = IsoDate(Today(now) - 1)
          /\ Existing(db, <<"tender_close", t.id>>) # {}

\* C15: no statement of generate_notifications writes to a notification that
\* exists: each keeps its id, is_read, title, message, level and target_role,
\* so a read notification stays read and a message keeps the day count of the
\* day it was written.
C15_ExistingRowsUntouched ==
    [][(\E w \in Workers : workers'[w] # workers[w]) =>
          \A x \in db.notifications :
              \E y \in db'.notifications :
                  /\ y.id = x.id
                  /\ y.unique_key = x.unique_key
                  /\ y.is_read = x.is_read
                  /\ y.title = x.title
                  /\ y.message = x.message
                  /\ y.level = x.level
                  /\ y.target_role = x.target_role]_vars

\* after a run on a later day: a guarantee alert that was marked read is still
\* read and still carries the day count of the day before
C15_Witness ==
    /\ outcome.op = "generate_notifications"
    /\ outcome.result = "ok"
    /\ \E p \in db.projects :
          /\ Len(p.guarantee_end) = 2
          /\ Today(now) <= p.guarantee_end[2]
          /\ p.guarantee_end[2] <= Today(now) + GUARANTEE_SOON_DAYS
          /\ \E x \in Existing(db, <<"guarantee_due", p.id>>) :
                /\ x.is_read = 1
                /\ x.message[2] # p.guarantee_end[2] - Today(now)

\* C16: no run raises the ValueError of a date that does not parse: a run
\* ends in an error only when the database refuses an INSERT (another run
\* inserted the key first, or a connection holds the write lock); a run
\* that no other call disturbs, over records of which some carry such a date,
\* returns normally, creates no notification for those records, and leaves a
\* notification stored for every record that satisfies a rule, whether it is
\* scanned before or after the unparseable one, in the same rule or a later one.
C16_BadDatesAreSkipped ==
    [][/\ outcome'.op = "generate_notifications" =>
             outcome'.result \in {"running", "ok", "IntegrityError", "OperationalError"}
       /\ RunEnds("generate_notifications") =>
          LET today == outcome.arg
              bad(text) == text # <<>> /\ ~(Len(text) = 2 /\ text[1] = "date")
              added == db'.notifications \ outcome.value
              tenderDue == {t \in db.tenders :
                               /\ t.status \in {"draft", "in_preparation", "submitted"}
                               /\ Len(t.submission_deadline) = 2
                               /\ t.submission_deadline[1] = "date"
                               /\ today <= t.submission_deadline[2]
                               /\ t.submission_deadline[2] <= today + 5}
              invoiceDue == {i \in db.invoices :
                               /\ i.status # "paid"
                               /\ Len(i.due_date) = 2
                               /\ i.due_date[1] = "date"
                               /\ i.due_date[2] < today}
              projectDue == {p \in db.projects :
                               /\ Len(p.guarantee_end) = 2
                               /\ p.guarantee_end[1] = "date"
                               /\ today <= p.guarantee_end[2]
                               /\ p.guarantee_end[2] <= today + 10}
          IN  /\ outcome'.result = "ok"
              /\ \A t \in db.tenders : bad(t.submission_deadline) =>
                    \A x \in added : x.unique_key # <<"tender_close", t.id>>
              /\ \A i \in db.invoices : bad(i.due_date) =>
                    \A x \in added : x.unique_key # <<"invoice_due", i.id>>
              /\ \A p \in db.projects : bad(p.guarantee_end) =>
                    \A x \in added : x.unique_key # <<"guarantee_due", p.id>>
              /\ \A t \in tenderDue :
                    \E x \in db'.notifications : x.unique_key = <<"tender_close", t.id>>
              /\ \A i \in invoiceDue :
                    \E x \in db'.notifications : x.unique_key = <<"invoice_due", i.id>>
              /\ \A p \in projectDue :
                    \E x \in db'.notifications : x.unique_key = <<"guarantee_due", p.id>>]_vars

\* after a run: a tender with an unparseable deadline has no alert, a tender
\* scanned after it has one, and so has a project in the last rule
C16_Witness ==
    /\ outcome.op = "generate_notifications"
    /\ outcome.result = "ok"
    /\ \E t1 \in db.tenders : \E t2 \in db.tenders :
          /\ t1.id < t2.id
          /\ t1.submission_deadline = BadDate
          /\ Existing(db, <<"tender_close", t1.id>>) = {}
          /\ Existing(db, <<"tender_close", t2.id>>) # {}
    /\ \E p \in db.projects : Existing(db, <<"guarantee_due", p.id>>) # {}

\* C17 as stated: with request threads running generate_notifications at the
\* same time, in every interleaving every call completes without an error:
\* no generate_notifications ever raises.
C17_NoWorkerFails ==
    outcome.op = "generate_notifications" => outcome.result \in {"running", "ok"}

(* ------------------------ claims on authentication --------------------- *)
\* C18 as stated: authenticate(username, password) returns the stored user
\* exactly when a user with that username exists and the password verifies
\* against that user's hash, and None in every other case, so that an unknown
\* username and a known username with a wrong password give the same result
\* and the same 401 from the login route; a user created by
\* create_user(u, p, role) authenticates with (u, p) and carries that role.
C18_Authenticate ==
    [][Answered =>
       LET verifies(p, x) ==
               LET v == verify_password(p, x.password_hash) IN v.result = "ok" /\ v.value
           matching(d, u, p) == {x \in d.users : x.username = u /\ verifies(p, x)}
       IN  /\ outcome'.op = "authenticate" =>
                /\ outcome'.result = "ok"
                /\ outcome'.value = matching(db, outcome'.arg, outcome'.body)
                /\ Cardinality(outcome'.value) <= 1
                /\ db' = db
           /\ outcome'.op = "login" =>
                /\ outcome'.result \in {"400", "401", "200", "500"}
                /\ (outcome'.arg # "" /\ ~Falsy(outcome'.body)) =>
                      (outcome'.result = "401"
                          <=> matching(db, outcome'.arg, outcome'.body) = {})
                /\ outcome'.result = "401" => (outcome'.value = {} /\ db' = db)
                /\ outcome'.result = "200" =>
                      outcome'.value = matching(db, outcome'.arg, outcome'.body)
                /\ outcome'.result = "500" => Held(db)
           /\ (outcome'.op = "create_user" /\ outcome'.result = "ok") =>
                \E x \in db'.users :
                    /\ x.id = outcome'.value
                    /\ x.role = outcome'.body.role
                    /\ authenticate(db', outcome'.arg, outcome'.body.password).value = {x}]_vars

\* C19 as stated: verify_password(q, hash_password(p)) is true if and only if
\* q = p, for all passwords p and q and every salt.
C19_VerifyIffEqual ==
    (outcome.op = "verify_password" /\ outcome.result = "ok")
        => (outcome.value <=> outcome.arg = outcome.body.password)

(* ------------------------ claims on the listing ------------------------ *)
\* C20 as stated: list_notifications(role) returns exactly the stored
\* notifications whose target_role is role, newest first: created_at does not
\* increase along the result, so that a notification created later (a larger
\* id) never comes after one created earlier.
C20_NewestFirst ==
    (outcome.op = "list_notifications" /\ outcome.result = "ok") =>
        LET rows == outcome.value
            n == Len(rows)
        IN  /\ {rows[k] : k \in 1..n}
                  = {x.id : x \in {y \in db.notifications : y.target_role = outcome.arg}}
            /\ \A k \in 1..n : \A l \in 1..n : k # l => rows[k] # rows[l]
            /\ \A k \in 1..n : \A l \in 1..n :
                  k < l => RowOf(db.notifications, rows[k]).created_at
                              >= RowOf(db.notifications, rows[l]).created_at
            /\ \A k \in 1..n : \A l \in 1..n : k < l => rows[k] > rows[l]
(* ------------------------------------------------------------------------ *)
(* Claims about marking, listing and the shape of notifications             *)
(* ------------------------------------------------------------------------ *)

\* C21: mark_notification_read raises no error, whatever id it is given: an
\* id that is already read or absent leaves the store as it was
C21_MarkRaisesNoError ==
    outcome.op = "mark_notification_read" => outcome.result = "ok"

\* C22: every fetch of the notifications endpoint runs the rule engine before
\* it reads the list: the list returned for a role holds a notification for
\* every record that satisfies a rule targeted at that role at the time of
\* the fetch, records created since the previous fetch included.  A fetch
\* returns no list only when the database refuses an INSERT of its run (a
\* racing run inserted the key first, or a connection holds the write lock);
\* a fetch that nothing disturbs returns the list
C22_FetchIsFresh ==
    [][/\ outcome'.op = "list_notifications" =>
             /\ outcome'.result \in {"running", "ok", "IntegrityError", "OperationalError"}
             /\ outcome'.result \in {"IntegrityError", "OperationalError"} =>
                   outcome'.value = None
       /\ RunEnds("list_notifications") =>
             /\ outcome'.result = "ok"
             /\ \A n \in DueAlerts(db', Today(now')) :
                   n.target_role = outcome'.arg =>
                      \E x \in db'.notifications :
                         /\ x.unique_key = n.unique_key
                         /\ \E k \in 1..Len(outcome'.value) : outcome'.value[k] = x.id]_vars

\* a procurement user's fetch returned a notification the fetch itself made,
\* next to one made by an earlier fetch
C22_Witness ==
    /\ outcome.op = "list_notifications"
    /\ outcome.result = "ok"
    /\ outcome.arg = "procurement"
    /\ \E x, y \in db.notifications :
          /\ x.created_at = now /\ y.created_at < now
          /\ \E k \in 1..Len(outcome.value) : outcome.value[k] = x.id
          /\ \E k \in 1..Len(outcome.value) : outcome.value[k] = y.id
          /\ x.unique_key \in {n.unique_key : n \in DueAlerts(db, Today(now))}

\* C23: every notification the rule engine produces carries the reference to
\* the record that triggered it: related_type and related_id are not null
C23_RelatedIsSet ==
    \A x \in db.notifications : x.related_type # NullText /\ x.related_id # None

\* C24: the check and the insert of ensure_notification are one atomic step:
\* in no interleaving have two callers both found no notification with the
\* same unique_key and both gone on to the insert
C24_CheckThenInsertIsAtomic ==
    \A v, w \in Workers :
        (v # w /\ workers[v].pc = "insert" /\ workers[w].pc = "insert")
            => Head(workers[v].calls).unique_key # Head(workers[w].calls).unique_key

(* ------------------------------------------------------------------------ *)
(* Claims about the life of a session                                       *)
(* ------------------------------------------------------------------------ *)
\* C25: expiry is lazy.  A resolve that finds the session of its token expired
\* deletes that row and returns None; a resolve of an unexpired session
\* deletes nothing; the sessions of other tokens are never deleted by a
\* resolve, expired or not
C25_LazyExpiry ==
    [][/\ \A w \in Workers : Resolving(w) =>
             LET s == workers[w].held IN
             /\ SessionExpired(s, now) =>
                    /\ db'.sessions = db.sessions \ {s}
                    /\ outcome'.value = None
             /\ ~SessionExpired(s, now) => db'.sessions = db.sessions
             /\ \A x \in db.sessions : x.token # s.token => x \in db'.sessions
       /\ (workers' = workers /\ outcome'.op = "get_user_by_session") =>
             db'.sessions = db.sessions]_vars

\* a resolve deleted the expired session of its token and left the expired
\* session of another token where it was
C25_Witness ==
    /\ outcome.op = "get_user_by_session"
    /\ outcome.arg \in IssuedTokens(issued) \ destroyed
    /\ outcome.value = None
    /\ \A s \in db.sessions : s.token # outcome.arg
    /\ \E s \in db.sessions : SessionExpired(s, now)

(* ------------------------------------------------------------------------ *)
(* Claims about what the rules write                                        *)
(* ------------------------------------------------------------------------ *)
\* the record a notification is about, read from its unique_key
KeyId(x) == x.unique_key[2]

\* C26 as stated: the day count in a tender-closing notification is the
\* deadline minus the day on which the notification is created, an integer in
\* 0..5 (0 when the deadline is that day); the day count in a
\* guarantee-expiring notification is guarantee_end minus that day, in 0..10
C26_DayCountOnCreation ==
    [][\A x \in db'.notifications \ db.notifications :
          /\ x.unique_key[1] = "tender_close" =>
                /\ x.message[2] = date_fromisoformat(
                       RowOf(db.tenders, KeyId(x)).submission_deadline).date
                          - Today(x.created_at)
                /\ x.message[2] \in 0..TENDER_SOON_DAYS
          /\ x.unique_key[1] = "guarantee_due" =>
                /\ x.message[2] = date_fromisoformat(
                       RowOf(db.projects, KeyId(x)).guarantee_end).date
                          - Today(x.created_at)
                /\ x.message[2] \in 0..GUARANTEE_SOON_DAYS]_vars

\* C26, amended: the day count in a tender-closing notification is the
\* deadline minus the day that the run which creates the notification read
\* from date.today() when it began, an integer in 0..5 (0 when the deadline
\* is that day); the day count in a guarantee-expiring notification is
\* guarantee_end minus that day, in 0..10.  The day of the INSERT
\* (created_at) is a later one when midnight passes during the run
C26_DayCount ==
    [][\A w \in Workers :
          (workers[w].pc = "insert" /\ workers'[w] # workers[w]) =>
             \A x \in db'.notifications \ db.notifications :
                /\ x.unique_key[1] = "tender_close" =>
                      /\ x.message[2] = date_fromisoformat(
                             RowOf(db.tenders, KeyId(x)).submission_deadline).date
                                - workers[w].today
                      /\ x.message[2] \in 0..TENDER_SOON_DAYS
                /\ x.unique_key[1] = "guarantee_due" =>
                      /\ x.message[2] = date_fromisoformat(
                             RowOf(db.projects, KeyId(x)).guarantee_end).date
                                - workers[w].today
                      /\ x.message[2] \in 0..GUARANTEE_SOON_DAYS]_vars

\* a run wrote 10 days for a guarantee that ends on the last day of its
\* window, next to the 0 days that a run which began the day before wrote,
\* after midnight, for a tender that closed on the day that run began
C26_Witness ==
    /\ outcome.op = "generate_notifications"
    /\ outcome.result = "ok"
    /\ \E x \in db.notifications :
          /\ x.unique_key[1] = "tender_close"
          /\ x.message[2] = 0
          /\ RowOf(db.tenders, KeyId(x)).submission_deadline
                = IsoDate(Today(x.created_at) - 1)
    /\ \E y \in db.notifications :
          /\ y.unique_key[1] = "guarantee_due"
          /\ y.message[2] = GUARANTEE_SOON_DAYS
          /\ y.created_at = now

\* C27: every stored notification has one of three shapes, fixed by its key:
\* tender_close_<id> with level warning for procurement, invoice_due_<id> with
\* level danger for finance, guarantee_due_<id> with level info for
\* project_manager; nothing else creates notifications, so the lists of the
\* roles admin and viewer are always empty
C27_ThreeShapes ==
    /\ \A x \in db.notifications :
          \/ /\ x.unique_key[1] = "tender_close" /\ x.unique_key[2] \in 1..db.seq.tenders
             /\ x.level = "warning" /\ x.target_role = "procurement"
          \/ /\ x.unique_key[1] = "invoice_due" /\ x.unique_key[2] \in 1..db.seq.invoices
             /\ x.level = "danger" /\ x.target_role = "finance"
          \/ /\ x.unique_key[1] = "guarantee_due" /\ x.unique_key[2] \in 1..db.seq.projects
             /\ x.level = "info" /\ x.target_role = "project_manager"
    /\ list_notifications(db, "admin") = {<<>>}
    /\ list_notifications(db, "viewer") = {<<>>}
    /\ (outcome.op = "list_notifications" /\ outcome.result = "ok"
           /\ outcome.arg \in {"admin", "viewer"})
          => outcome.value = <<>>

\* the three shapes are stored and an administrator has just read an empty list
C27_Witness ==
    /\ outcome.op = "list_notifications"
    /\ outcome.result = "ok"
    /\ outcome.arg = "admin"
    /\ outcome.value = <<>>
    /\ \A prefix \in {"tender_close", "invoice_due", "guarantee_due"} :
          \E x \in db.notifications : x.unique_key[1] = prefix

\* C28: a session row leaves the store only through destroy_session on its own
\* token or get_user_by_session on its own token after its expiry; nothing
\* else removes it, so a session neither expired nor destroyed resolves to its
\* user, and an expired session that is not resolved or destroyed stays
C28_SessionLeavesTwoWays ==
    [][/\ \A s \in db.sessions \ db'.sessions :
             \/ Answered /\ outcome'.op = "destroy_session" /\ outcome'.arg = s.token
             \/ \E w \in Workers :
                   /\ Resolving(w)
                   /\ workers[w].held = s
                   /\ SessionExpired(s, now)
       /\ \A h \in issued' :
             (h.token \notin destroyed' /\ now' <= h.at + SESSION_DURATION_HOURS)
                 => get_user_by_session(db', now', h.token).value = h.user_id]_vars

\* an expired session is still stored after a tender was written, the rule
\* engine ran and the expired session of another token was resolved away
C28_Witness ==
    /\ outcome.op = "generate_notifications"
    /\ outcome.result = "ok"
    /\ db.notifications # {}
    /\ \E s \in db.sessions : SessionExpired(s, now)
    /\ \E h \in issued : h.token \notin destroyed /\ \A s \in db.sessions : s.token # h.token

(* ------------------------------------------------------------------------ *)
(* Claims about requests                                                    *)
(* ------------------------------------------------------------------------ *)
\* the value of the session cookie that _load_user gets from a Cookie header,
\* as a set: cookies.get("session") of what _parse_cookies returns, of two
\* session pairs the later one; none when the header has no session pair,
\* when the cookie syntax rejects it and when SimpleCookie.load raises
\* CookieError (an illegal key, an attribute that is not reserved), which
\* ends the request before any session is looked up
NamedSession(header) == SessionCookie(parse_cookies(header).cookies)

\* the request's Cookie header names no session that resolves to a user at
\* time `clock`: no session cookie, an unknown token or an expired one
Unauthenticated(d, clock, header) ==
    \A value \in NamedSession(header) :
        \A s \in d.sessions :
            TokenText(s.token) = value => get_user_by_session(d, clock, s.token).value = None

\* C29: a request to a protected route with no session cookie, an unknown
\* token or an expired token is answered 401 before any domain work: no
\* record and no notification changes and the one session that may go is the
\* expired one the request named; a PermissionError for an authenticated
\* user is answered 403
C29_Unauthenticated401 ==
    [][(Answered /\ outcome'.op = "request") =>
          /\ Unauthenticated(db, now, outcome'.arg) =>
                /\ outcome'.result = "401"
                /\ [db' EXCEPT !.sessions = {}] = [db EXCEPT !.sessions = {}]
                /\ db'.sessions \subseteq db.sessions
                /\ \A s \in db.sessions \ db'.sessions :
                      SessionExpired(s, now)
                          /\ TokenText(s.token) \in NamedSession(outcome'.arg)
          /\ (~Unauthenticated(db, now, outcome'.arg)
                 /\ outcome'.body = "POST /api/tenders"
                 /\ check_permission(RowOf(db.users, outcome'.user), "tenders") # "ok")
                => outcome'.result = "403"]_vars

\* C30: get_user_by_session and destroy_session calls on one token, interleaved
\* statement by statement: no call raises, a resolve returns the bound user or
\* None, the session is absent once a destroy or an expired resolve has
\* completed and stays absent, and a resolve that starts after that returns None
C30_SessionCallsInterleave ==
    [][/\ (Answered /\ outcome'.op \in {"get_user_by_session", "destroy_session"}) =>
             outcome'.result = "ok"
       /\ (Answered /\ outcome'.op = "get_user_by_session") =>
             /\ outcome'.value \in
                   {None} \cup {h.user_id : h \in {i \in issued : i.token = outcome'.arg}}
             /\ outcome'.value = None => Absent(db', outcome'.arg)
       /\ (Answered /\ outcome'.op = "destroy_session") => Absent(db', outcome'.arg)
       /\ \A t \in IssuedTokens(issued) : Absent(db, t) => Absent(db', t)
       /\ \A w \in Workers :
             (workers[w].pc = "idle" /\ workers'[w].pc = "resolve")
                 => workers'[w].held \in db.sessions
       /\ \A t \in IssuedTokens(issued) :
             (Absent(db, t) /\ workers' = workers
                 /\ outcome'.op = "get_user_by_session" /\ outcome'.arg = t)
                 => outcome'.value = None]_vars

\* a resolve that had read the row before a destroy of its token completed
\* returned the user, with the session gone
C30_Witness ==
    /\ outcome.op = "get_user_by_session"
    /\ outcome.arg \in destroyed
    /\ outcome.value # None
    /\ Absent(db, outcome.arg)

====
